---------------------------- MODULE Spec2Model ----------------------------
(***************************************************************************)
(* A model of the xino uKernel core: the binary-tree buddy allocator       *)
(* (ukernel/include/allocator.hpp) and the stage-parameterised page-table  *)
(* engine (ukernel/include/mm_paging.hpp).                                 *)
(*                                                                         *)
(* Addresses are unsigned integers of AddrBits bits (the source's          *)
(* std::uintptr_t, scaled down); the translation granule and the input     *)
(* address width are scaled down with them, so that a table holds          *)
(* entries_per_table = 2 descriptors and a walk has three levels, as the   *)
(* 4 KiB / 39-bit configuration has.                                       *)
(***************************************************************************)
EXTENDS Integers, Sequences, FiniteSets, TLC

(***************************************************************************)
(* Bounds of the model.                                                    *)
(***************************************************************************)
\* Width of std::uintptr_t in the model.
AddrBits == 10
\* UKERNEL_PAGE_SHIFT in the model.
granule_shift == 4
\* Template parameter Order of buddy<Order>.
Order == 2

\* 1 << n
Pow2(n) == 2 ^ n

AddrSpace == Pow2(AddrBits)
\* Unsigned arithmetic of std::uintptr_t / std::size_t.
Wrap(x) == x % AddrSpace

granule_size == Pow2(granule_shift)
page_size == granule_size

\* address_base: align_up, align_down, is_align (align a power of two).
align_up(addr, align) == Wrap(((addr + (align - 1)) \div align) * align)
align_down(addr, align) == (addr \div align) * align
is_align(addr, align) == addr % align = 0

(***************************************************************************)
(* Buddy allocator.  A buddy<Order> object is a record                     *)
(*   [base_pa, end_pa, pool_pages, max_ord, free_bits, split_bits]         *)
(* whose two bitmaps are the sets of node numbers whose bit is set.        *)
(***************************************************************************)
RECURSIVE pages_to_order(_)
pages_to_order(pages) == IF pages > 1 THEN 1 + pages_to_order(pages \div 2) ELSE 0

order_to_pages(order) == Pow2(order)

node_count == Pow2(Order + 1)

test_bit(bits, bit) == bit \in bits
set_bit(bits, bit) == bits \cup {bit}
clear_bit(bits, bit) == bits \ {bit}

\* First set bit in [first, last), or 0.
find_set_in_range(bits, first, last) ==
    LET hit == {n \in bits : first <= n /\ n < last}
    IN  IF first >= last \/ hit = {} THEN 0
        ELSE CHOOSE n \in hit : \A m \in hit : n <= m

node_number(order, idx) == Pow2(Order - order) + idx

node_to_page_index(node, order) == (node - Pow2(Order - order)) * Pow2(order)

find_free_node_at_order(b, order) ==
    LET level == Order - order
    IN  find_set_in_range(b.free_bits, Pow2(level), Pow2(level + 1))

is_ok(b) == b.base_pa < b.end_pa

\* node ^ 1
node_bud(node) == IF node % 2 = 0 THEN node + 1 ELSE node - 1

\* The coalescing loop of buddy_free_pages, entered with node marked free.
RECURSIVE coalesce_keep_split(_, _, _)
coalesce_keep_split(b, node, o) ==
    IF o < b.max_ord /\ test_bit(b.free_bits, node_bud(node))
    THEN LET parent == node \div 2
             fb == set_bit(clear_bit(clear_bit(b.free_bits, node), node_bud(node)), parent)
         IN  coalesce_keep_split([b EXCEPT !.free_bits = fb], parent, o + 1)
    ELSE b

RECURSIVE coalesce(_, _, _)
coalesce(b, node, o) ==
    IF o < b.max_ord /\ test_bit(b.free_bits, node_bud(node))
    THEN LET parent == node \div 2
             fb == set_bit(clear_bit(clear_bit(b.free_bits, node), node_bud(node)), parent)
             sb == clear_bit(b.split_bits, parent)
         IN  coalesce([b EXCEPT !.free_bits = fb, !.split_bits = sb], parent, o + 1)
    ELSE b

buddy_free_pages(b, pa, order) ==
    IF ~is_ok(b) \/ order > b.max_ord THEN b
    ELSE IF ~is_align(pa, page_size) THEN b
    ELSE LET span == order_to_pages(order) * page_size
         IN  IF pa < b.base_pa \/ pa > Wrap(b.end_pa - span + AddrSpace) THEN b
             ELSE LET page_idx == (pa - b.base_pa) \div page_size
                      node == node_number(order, page_idx \div Pow2(order))
                  IN  IF test_bit(b.split_bits, node) THEN b
                      ELSE IF test_bit(b.free_bits, node) THEN b
                      ELSE coalesce([b EXCEPT !.free_bits = set_bit(@, node)], node, order)

\* The split-down loop of buddy_alloc_pages: node was found free at order o.
RECURSIVE split_down(_, _, _, _)
split_down(b, node, o, order) ==
    IF o > order
    THEN split_down([b EXCEPT !.split_bits = set_bit(@, node),
                              !.free_bits = set_bit(@, 2 * node + 1)],
                    2 * node, o - 1, order)
    ELSE [b |-> b, node |-> node]

\* Smallest order >= order with a free node: [o, node], node = 0 if none.
RECURSIVE find_order(_, _)
find_order(b, o) ==
    IF o > b.max_ord THEN [o |-> o, node |-> 0]
    ELSE LET node == find_free_node_at_order(b, o)
         IN  IF node # 0 THEN [o |-> o, node |-> node] ELSE find_order(b, o + 1)

\* A buddy_alloc_pages that leaves the free bit of the node it takes.
buddy_alloc_pages_keep_free(b, order) ==
    IF ~is_ok(b) \/ order > b.max_ord THEN [b |-> b, pa |-> 0]
    ELSE CHOOSE out \in
             {(IF f.node = 0 THEN [b |-> b, pa |-> 0]
               ELSE LET s == split_down(b, f.node, f.o, order)
                    IN  [b |-> s.b,
                         pa |-> Wrap(b.base_pa
                                     + node_to_page_index(s.node, order) * page_size)])
              : f \in {find_order(b, order)}} : TRUE

\* Returns [b |-> allocator after the call, pa |-> address or 0].
buddy_alloc_pages(b, order) ==
    IF ~is_ok(b) \/ order > b.max_ord THEN [b |-> b, pa |-> 0]
    ELSE CHOOSE out \in
             {(IF f.node = 0 THEN [b |-> b, pa |-> 0]
               ELSE LET s == split_down([b EXCEPT !.free_bits = clear_bit(@, f.node)],
                                        f.node, f.o, order)
                    IN  [b |-> s.b,
                         pa |-> Wrap(b.base_pa
                                     + node_to_page_index(s.node, order) * page_size)])
              : f \in {find_order(b, order)}} : TRUE

\* The range-for of buddy_init: address_iterator stops when cur >= last.
RECURSIVE free_each_page(_, _, _)
free_each_page(b, cur, last) ==
    IF cur >= last THEN b
    ELSE free_each_page(buddy_free_pages(b, cur, 0), Wrap(cur + page_size), last)

UninitBuddy ==
    [base_pa |-> 0, end_pa |-> 0, pool_pages |-> 0, max_ord |-> 0,
     free_bits |-> {}, split_bits |-> {}]

\* buddy_init without its limit on the number of pages.
buddy_init_any_pages(b, pa, size) ==
    IF Wrap(pa + size) < pa THEN [b |-> b, ret |-> "overflow"]
    ELSE LET base == align_up(pa, page_size)
             end == align_down(Wrap(pa + size), page_size)
         IN  IF end <= base THEN [b |-> b, ret |-> "invalid"]
             ELSE LET pages == (end - base) \div page_size
                      odr == pages_to_order(pages)
                  IN  [b |-> free_each_page(
                                 [b EXCEPT !.base_pa = base, !.end_pa = end,
                                           !.pool_pages = pages,
                                           !.max_ord = IF odr < Order THEN odr ELSE Order],
                                 base, end),
                       ret |-> "ok"]

\* Returns [b |-> allocator, ret |-> "ok" | "overflow" | "invalid"].
buddy_init(b, pa, size) ==
    IF Wrap(pa + size) < pa THEN [b |-> b, ret |-> "overflow"]
    ELSE LET base == align_up(pa, page_size)
             end == align_down(Wrap(pa + size), page_size)
         IN  IF end <= base THEN [b |-> b, ret |-> "invalid"]
             ELSE LET pages == (end - base) \div page_size
                      odr == pages_to_order(pages)
                  IN  IF pages > order_to_pages(Order) THEN [b |-> b, ret |-> "invalid"]
                      ELSE [b |-> free_each_page(
                                     [b EXCEPT !.base_pa = base, !.end_pa = end,
                                               !.pool_pages = pages,
                                               !.max_ord = IF odr < Order THEN odr ELSE Order],
                                     base, end),
                            ret |-> "ok"]

init(pa, size) == buddy_init(UninitBuddy, pa, size)


(***************************************************************************)
(* Page-table engine: geometry.                                            *)
(***************************************************************************)
\* UKERNEL_VA_BITS in the model.
va_bits == 7
\* cpu_state.pa_bits in the model.
pa_bits == 9

Stages == {"ST_1", "ST_2"}

index_stride == granule_shift - 3
entries_per_table == Pow2(index_stride)

levels_for_bits(addr_bits) == (addr_bits - 4) \div index_stride
root_hw_level_for_bits(addr_bits) == 4 - levels_for_bits(addr_bits)
to_hw_level_for_bits(addr_bits, level) == root_hw_level_for_bits(addr_bits) + level
hw_level_shift(hw_level) == index_stride * (4 - hw_level) + 3
level_shift_for_bits(addr_bits, level) == hw_level_shift(to_hw_level_for_bits(addr_bits, level))
level_size_for_bits(addr_bits, level) == Pow2(level_shift_for_bits(addr_bits, level))

\* cpu_state.ipa_bits as init_paging computes it.
ipa_bits == IF va_bits < pa_bits THEN va_bits ELSE pa_bits

ia_bits(stage) == IF stage = "ST_1" THEN va_bits ELSE ipa_bits
levels(stage) == levels_for_bits(ia_bits(stage))
level_shift(stage, level) == level_shift_for_bits(ia_bits(stage), level)
level_size(stage, level) == level_size_for_bits(ia_bits(stage), level)

(***************************************************************************)
(* Descriptors.  A pte_t is the record [type, pa, attr]: the type bits     *)
(* [1:0], the output-address field (already masked by                      *)
(* pte_phys_field_mask) and the attribute fields.                          *)
(***************************************************************************)
PTE_TYPE_FAULT == 0
PTE_TYPE_BLOCK == 1
PTE_TYPE_PAGE_OR_TABLE == 3

MAIR_IDX_NORMAL == 0
MAIR_IDX_DEVICE == 1
S2_MEMATTR_DEVICE_nGnRnE == 0
S2_MEMATTR_NORMAL_WB == 15

\* All attribute fields zero.
NoAttr == [idx |-> 0, ap |-> 0, sh |-> 0, af |-> 0, ng |-> 0, pxn |-> 0, uxn |-> 0]
\* The all-zero descriptor, PTE_TYPE_FAULT.
FAULT == [type |-> PTE_TYPE_FAULT, pa |-> 0, attr |-> NoAttr]

pte_is_fault(pte) == pte.type = PTE_TYPE_FAULT
pte_is_block(pte) == pte.type = PTE_TYPE_BLOCK
pte_is_table_or_page(pte) == pte.type = PTE_TYPE_PAGE_OR_TABLE

\* pa & pte_phys_field_mask(): bits [granule_shift .. pa_bits - 1].
phys_to_pte(pa) == align_down(pa % Pow2(pa_bits), granule_size)
pte_to_phys(pte) == pte.pa
\* entry & pte_attr_field_mask()
pte_attr(pte) == pte.attr

make_table(pa) == [type |-> PTE_TYPE_PAGE_OR_TABLE, pa |-> phys_to_pte(pa), attr |-> NoAttr]
make_leaf_page_attr(pa, attr) == [type |-> PTE_TYPE_PAGE_OR_TABLE, pa |-> phys_to_pte(pa), attr |-> attr]
make_leaf_block_attr(pa, attr) == [type |-> PTE_TYPE_BLOCK, pa |-> phys_to_pte(pa), attr |-> attr]

\* xino::mm::prot: a set of flags.
KERNEL_RW == {"READ", "WRITE", "KERNEL", "SHARED"}
KERNEL_RWX == {"READ", "WRITE", "EXECUTE", "KERNEL", "SHARED"}

encode_attrs_st1(p, device) ==
    [idx |-> IF device THEN MAIR_IDX_DEVICE ELSE MAIR_IDX_NORMAL,
     af  |-> 1,
     sh  |-> IF "SHARED" \in p THEN 3 ELSE 0,
     ap  |-> IF "KERNEL" \in p THEN (IF "WRITE" \in p THEN 0 ELSE 2)
                               ELSE (IF "WRITE" \in p THEN 1 ELSE 3),
     ng  |-> IF "KERNEL" \in p THEN 0 ELSE 1,
     pxn |-> IF "EXECUTE" \in p THEN 0 ELSE 1,
     uxn |-> IF "EXECUTE" \in p THEN 0 ELSE 1]

encode_attrs_st2(p, device) ==
    [idx |-> IF device THEN S2_MEMATTR_DEVICE_nGnRnE ELSE S2_MEMATTR_NORMAL_WB,
     af  |-> 1,
     sh  |-> 0,
     ap  |-> IF "READ" \in p /\ "WRITE" \in p THEN 3
             ELSE IF "READ" \in p THEN 1 ELSE 0,
     ng  |-> 0,
     pxn |-> 0,
     uxn |-> IF "EXECUTE" \in p THEN 0 ELSE 1]

encode_attrs(stage, p, device) ==
    IF stage = "ST_1" THEN encode_attrs_st1(p, device) ELSE encode_attrs_st2(p, device)

entry_is_table(stage, level, pte) == pte_is_table_or_page(pte) /\ (level + 1) < levels(stage)
entry_is_block(pte) == pte_is_block(pte)
entry_is_valid(pte) == ~pte_is_fault(pte)

entry_at_level(stage, pa, p, at_level) ==
    IF (at_level + 1) < levels(stage)
    THEN make_leaf_block_attr(pa, encode_attrs(stage, p, "DEVICE" \in p))
    ELSE make_leaf_page_attr(pa, encode_attrs(stage, p, "DEVICE" \in p))

\* An input address is [addr, asid] (asid is 0 and unused at stage 2).
table_index_at_level(stage, a, at_level) ==
    (a.addr \div Pow2(level_shift(stage, at_level))) % entries_per_table

addr_at_level(stage, a, at_level) ==
    [a EXCEPT !.addr = align_down(a.addr, level_size(stage, at_level))]

addr_suitable_for_level(stage, a, pa, level) ==
    is_align(a.addr, level_size(stage, level)) /\ is_align(pa, level_size(stage, level))

RECURSIVE choose_from(_, _, _, _, _)
choose_from(stage, a, pa, size, level) ==
    IF level < levels(stage)
    THEN IF size >= level_size(stage, level) /\ addr_suitable_for_level(stage, a, pa, level)
         THEN level
         ELSE choose_from(stage, a, pa, size, level + 1)
    ELSE levels(stage) - 1

\* A choose_leaf_level that looks at the input address only.
choose_leaf_level_by_input(stage, a, pa, size) == choose_from(stage, a, a.addr, size, 0)

choose_leaf_level(stage, a, pa, size) == choose_from(stage, a, pa, size, 0)

(***************************************************************************)
(* The machine a member function of page_table runs on.  It is the record  *)
(*   [mem, b, ev, stage, mmu, allocator, root_pa]                          *)
(* mem: the physical pages of the allocator's pool, each a table of        *)
(* entries_per_table descriptors; b: the buddy allocator the page table    *)
(* was given; ev: the trace of memory-system effects of the running call   *)
(* (descriptor stores, barriers, TLB invalidations, allocator calls);      *)
(* stage: the template parameter Stage; mmu: va_layout_enabled;            *)
(* allocator, root_pa: the two members of the object.                      *)
(***************************************************************************)
page_offset == AddrSpace - Pow2(va_bits)

phys_to_virt(pa, mmu_on) == IF ~mmu_on THEN pa ELSE Wrap(page_offset + pa)

\* The windows of the layout, top down: the image slot, the device slot, and
\* the direct map below them.
ukimage_slot_size == page_size
devmap_slot_size == page_size
ukimage_end == AddrSpace - 1
ukimage_va == ukimage_end - ukimage_slot_size + 1
devmap_end == ukimage_va - 1
devmap_va == devmap_end - devmap_slot_size + 1
page_end == devmap_va - 1

\* What va_layout's initialisation leaves in its three globals: the image
\* linked at the start of its slot and loaded above the pools.
ukimage_va_base == ukimage_va
ukimage_pa_base == 8 * page_size
ukimage_size == page_size

is_ukimage(va) == ukimage_va_base <= va /\ va <= Wrap(ukimage_va_base + ukimage_size - 1)

is_direct_map(va) == page_offset <= va /\ va <= page_end

\* std::optional<phys_addr>: std::nullopt.
nullopt == [has_value |-> FALSE, pa |-> 0]
some(pa) == [has_value |-> TRUE, pa |-> pa]

\* A virt_to_phys that takes every address for a physical one.
virt_to_phys_identity(va, mmu_on) == some(va)

virt_to_phys(va, mmu_on) ==
    IF ~mmu_on THEN some(va)
    ELSE IF is_direct_map(va) THEN some(Wrap(va + AddrSpace - page_offset))
    ELSE IF is_ukimage(va)
         THEN some(Wrap(ukimage_pa_base + Wrap(va + AddrSpace - ukimage_va_base)))
    ELSE nullopt

\* The physical address a kernel pointer refers to: itself with the MMU
\* off, through the direct-map window with the MMU on.
ram(m, va) == IF m.mmu THEN Wrap(va + AddrSpace - page_offset) ELSE va

pa_to_pte(m, pa) == phys_to_virt(pa, m.mmu)
root_va(m) == pa_to_pte(m, m.root_pa)

\* t[idx]
load(m, t, idx) == m.mem[ram(m, t)][idx]

NoAddr == [addr |-> 0, asid |-> 0]

mk_event(e, site) ==
    [e |-> e, site |-> site, tbl |-> 0, idx |-> 0, old |-> FAULT, new |-> FAULT,
     a |-> NoAddr, size |-> 0]

\* The call's trace extended by the effects evs, in their order.
emit(m, evs) == [m EXCEPT !.ev = @ \o evs]

\* dmb<opt>(), dsb<opt>(), isb() issued at a code site.
barrier(m, e, site) == emit(m, <<mk_event(e, site)>>)

\* t[idx] = value at a code site; [a, a + size) is the input range the slot
\* translates where the site knows it.
store(m, site, t, idx, value, a, size) ==
    [m EXCEPT !.mem[ram(m, t)][idx] = value,
              !.ev = Append(@, [mk_event("store", site) EXCEPT
                                   !.tbl = ram(m, t), !.idx = idx,
                                   !.old = load(m, t, idx), !.new = value,
                                   !.a = a, !.size = size])]

\* The loop of alloc_single_pt that writes FAULT to every entry.
RECURSIVE init_ptes(_, _, _)
init_ptes(m, t, i) ==
    IF i < entries_per_table
    THEN init_ptes(store(m, "alloc_single_pt", t, i, FAULT, NoAddr, 0), t, i + 1)
    ELSE m

\* An alloc_single_pt that returns the page without a fence.
alloc_single_pt_no_fence(m) ==
    CHOOSE out \in
        {(LET m1 == emit([m EXCEPT !.b = r.b],
                         <<[mk_event("alloc_pages", "alloc_single_pt") EXCEPT
                               !.tbl = r.pa]>>)
          IN  IF r.pa = 0 THEN [m |-> m1, pa |-> 0]
              ELSE [m  |-> init_ptes(m1, pa_to_pte(m1, r.pa), 0), pa |-> r.pa])
         : r \in {buddy_alloc_pages(m.b, 0)}} : TRUE

\* Returns [m, pa]; pa = 0 on failure.  r is what allocator->alloc_pages
\* returned.
alloc_single_pt(m) ==
    CHOOSE out \in
        {(LET m1 == emit([m EXCEPT !.b = r.b],
                         <<[mk_event("alloc_pages", "alloc_single_pt") EXCEPT
                               !.tbl = r.pa]>>)
          IN  IF r.pa = 0 THEN [m |-> m1, pa |-> 0]
              ELSE [m  |-> barrier(init_ptes(m1, pa_to_pte(m1, r.pa), 0),
                                   "dmb_ishst", "alloc_single_pt"),
                    pa |-> r.pa])
         : r \in {buddy_alloc_pages(m.b, 0)}} : TRUE

\* The TLBI instructions of the range-for of invalidate_va_range /
\* invalidate_ipa_range: one per granule of [start, end), in address order.
tlbi_each(stg, start, end, asid) ==
    [i \in 1 .. (IF start < end THEN (end - start + granule_size - 1) \div granule_size
                               ELSE 0) |->
        [mk_event(IF stg = "ST_1" THEN "tlbi_vae2is" ELSE "tlbi_ipas2e1is",
                  "invalidate_range") EXCEPT
            !.a = [addr |-> start + (i - 1) * granule_size, asid |-> asid],
            !.size = granule_size]]

\* The barriers and TLBIs invalidate_range(a, size) issues, in their order.
invalidate_range(stg, a, size) ==
    LET start == align_down(a.addr, granule_size)
        end   == align_up(Wrap(a.addr + size), granule_size)
        asid  == IF stg = "ST_1" THEN a.asid ELSE 0
    IN  <<mk_event("dsb_ishst", "invalidate_range")>>
        \o tlbi_each(stg, start, end, asid)
        \o <<mk_event("dsb_ish", "invalidate_range"),
             mk_event("isb", "invalidate_range")>>

\* dsb(ishst); invalidate_range(a, size); dsb(ish); isb()
sync_range(m, a, size) ==
    emit(m, <<mk_event("dsb_ishst", "write_pte_and_sync")>>
            \o invalidate_range(m.stage, a, size)
            \o <<mk_event("dsb_ish", "write_pte_and_sync"),
                 mk_event("isb", "write_pte_and_sync")>>)

\* Variants of write_pte_and_sync that the checked properties must tell
\* from the real one.
write_pte_no_break(m, k, a, size, t, idx, value) ==
    IF ~m.mmu THEN store(m, "write_pte_and_sync", t, idx, value, a, size)
    ELSE sync_range(store(m, "write_pte_and_sync", t, idx, value, a, size), a, size)

write_pte_no_sync(m, k, a, size, t, idx, value) ==
    IF ~m.mmu THEN store(m, "write_pte_and_sync", t, idx, value, a, size)
    ELSE LET m1 == IF k \in {"UPDATE", "REMOVE"}
                   THEN sync_range(store(m, "write_pte_and_sync", t, idx, FAULT, a, size),
                                   a, size)
                   ELSE m
         IN  store(m1, "write_pte_and_sync", t, idx, value, a, size)

write_pte_always_sync(m, k, a, size, t, idx, value) ==
    LET m1 == IF k \in {"UPDATE", "REMOVE"}
              THEN sync_range(store(m, "write_pte_and_sync", t, idx, FAULT, a, size),
                              a, size)
              ELSE m
    IN  sync_range(store(m1, "write_pte_and_sync", t, idx, value, a, size), a, size)

write_pte_and_sync(m, k, a, size, t, idx, value) ==
    IF ~m.mmu THEN store(m, "write_pte_and_sync", t, idx, value, a, size)
    ELSE LET m1 == IF k \in {"UPDATE", "REMOVE"}
                   THEN sync_range(store(m, "write_pte_and_sync", t, idx, FAULT, a, size),
                                   a, size)
                   ELSE m
         IN  sync_range(store(m1, "write_pte_and_sync", t, idx, value, a, size), a, size)

\* entry is t[idx]; [at, at + at_size) is the input range of that slot.
\* Returns [m, ret, child].
alloc_and_link_table(m, t, idx, at, at_size) ==
    IF ~pte_is_fault(load(m, t, idx)) THEN [m |-> m, ret |-> "invalid", child |-> 0]
    ELSE CHOOSE out \in
             {(IF r.pa = 0 THEN [m |-> r.m, ret |-> "nomem", child |-> 0]
               ELSE [m |-> store(r.m, "alloc_and_link_table", t, idx, make_table(r.pa),
                                 at, at_size),
                     ret |-> "ok", child |-> r.pa])
              : r \in {alloc_single_pt(m)}} : TRUE

\* A split_block that fills the child table with block descriptors at
\* every level.
RECURSIVE split_fill_blocks(_, _, _, _, _)
split_fill_blocks(m, ct, entry, level, i) ==
    IF i < entries_per_table
    THEN LET next == Wrap(pte_to_phys(entry) + level_size(m.stage, level + 1) * i)
         IN  split_fill_blocks(store(m, "split_block", ct, i,
                                     make_leaf_block_attr(next, pte_attr(entry)), NoAddr, 0),
                               ct, entry, level, i + 1)
    ELSE m

\* A split_block whose children all carry the block's own output address.
RECURSIVE split_fill_same_pa(_, _, _, _, _)
split_fill_same_pa(m, ct, entry, level, i) ==
    IF i < entries_per_table
    THEN LET leaf == IF level + 2 < levels(m.stage)
                     THEN make_leaf_block_attr(pte_to_phys(entry), pte_attr(entry))
                     ELSE make_leaf_page_attr(pte_to_phys(entry), pte_attr(entry))
         IN  split_fill_same_pa(store(m, "split_block", ct, i, leaf, NoAddr, 0),
                                ct, entry, level, i + 1)
    ELSE m

\* The loop of split_block that fills the child table ct.
RECURSIVE split_fill(_, _, _, _, _)
split_fill(m, ct, entry, level, i) ==
    IF i < entries_per_table
    THEN LET next == Wrap(pte_to_phys(entry) + level_size(m.stage, level + 1) * i)
             leaf == IF level + 2 < levels(m.stage)
                     THEN make_leaf_block_attr(next, pte_attr(entry))
                     ELSE make_leaf_page_attr(next, pte_attr(entry))
         IN  split_fill(store(m, "split_block", ct, i, leaf, NoAddr, 0),
                        ct, entry, level, i + 1)
    ELSE m

\* entry is t[idx].  Returns [m, ret].
split_block(m, a, t, idx, level) ==
    LET entry == load(m, t, idx)
    IN  IF ~entry_is_block(entry) THEN [m |-> m, ret |-> "ok"]
        ELSE IF ~is_align(a.addr, level_size(m.stage, level))
             THEN [m |-> m, ret |-> "invalid"]
        ELSE CHOOSE out \in
                 {(IF r.pa = 0 THEN [m |-> r.m, ret |-> "nomem"]
                   ELSE LET m1 == split_fill(r.m, pa_to_pte(r.m, r.pa), entry, level, 0)
                            m2 == barrier(m1, "dmb_ishst", "split_block")
                        IN  [m |-> write_pte_and_sync(m2, "UPDATE", a,
                                                      level_size(m.stage, level),
                                                      t, idx, make_table(r.pa)),
                             ret |-> "ok"])
                  : r \in {alloc_single_pt(m)}} : TRUE

\* free_subtree(table_pa, level); free_entries is its loop over t[i].
RECURSIVE free_subtree(_, _, _)
RECURSIVE free_entries(_, _, _, _)
free_entries(m, t, level, i) ==
    IF i >= entries_per_table THEN m
    ELSE LET entry == load(m, t, i)
         IN  IF ~entry_is_valid(entry) THEN free_entries(m, t, level, i + 1)
             ELSE LET m1 == IF entry_is_table(m.stage, level, entry)
                            THEN free_subtree(m, pte_to_phys(entry), level + 1)
                            ELSE m
                  IN  free_entries(store(m1, "free_subtree", t, i, FAULT, NoAddr, 0),
                                   t, level, i + 1)

\* A free_subtree that forgets the tables below table_pa.
free_subtree_shallow(m, table_pa, level) ==
    emit([m EXCEPT !.b = buddy_free_pages(m.b, table_pa, 0)],
         <<[mk_event("free_pages", "free_subtree") EXCEPT !.tbl = table_pa]>>)

free_subtree(m, table_pa, level) ==
    CHOOSE out \in
        {emit([m1 EXCEPT !.b = buddy_free_pages(m1.b, table_pa, 0)],
              <<[mk_event("free_pages", "free_subtree") EXCEPT !.tbl = table_pa]>>)
         : m1 \in {free_entries(m, pa_to_pte(m, table_pa), level, 0)}} : TRUE

\* protect_subtree(a, table_pa, level, p); protect_entries is its loop.
RECURSIVE protect_subtree(_, _, _, _, _)
RECURSIVE protect_entries(_, _, _, _, _, _)
protect_entries(m, a, t, level, p, i) ==
    IF i >= entries_per_table THEN m
    ELSE LET entry  == load(m, t, i)
             stride == level_size(m.stage, level)
             at     == [a EXCEPT !.addr = Wrap(a.addr + stride * i)]
             pa     == pte_to_phys(entry)
         IN  IF ~entry_is_valid(entry) THEN protect_entries(m, a, t, level, p, i + 1)
             ELSE IF entry_is_table(m.stage, level, entry)
                  THEN protect_entries(protect_subtree(m, at, pa, level + 1, p),
                                       a, t, level, p, i + 1)
             ELSE protect_entries(
                      write_pte_and_sync(m, "UPDATE", at, stride, t, i,
                                         entry_at_level(m.stage, pa, p, level)),
                      a, t, level, p, i + 1)

protect_subtree(m, a, table_pa, level, p) ==
    protect_entries(m, a, pa_to_pte(m, table_pa), level, p, 0)

\* A map_one that installs its leaf whatever the slot holds.
map_leaf_overwrite(m, t, idx, a, pa, p, leaf_level) ==
    [m |-> write_pte_and_sync(m, "INSTALL", addr_at_level(m.stage, a, leaf_level),
                              level_size(m.stage, leaf_level), t, idx,
                              entry_at_level(m.stage, pa, p, leaf_level)),
     ret |-> "ok"]

\* The end of map_one: t is the table at leaf_level, idx the index of a in it.
map_leaf(m, t, idx, a, pa, p, leaf_level) ==
    IF entry_is_valid(load(m, t, idx)) THEN [m |-> m, ret |-> "invalid"]
    ELSE [m |-> write_pte_and_sync(m, "INSTALL", addr_at_level(m.stage, a, leaf_level),
                                   level_size(m.stage, leaf_level), t, idx,
                                   entry_at_level(m.stage, pa, p, leaf_level)),
          ret |-> "ok"]

\* map_one: map_walk(m, root_va(), 0, ...) is the loop over the levels above
\* leaf_level followed by map_leaf at leaf_level.  Returns [m, ret].
RECURSIVE map_walk(_, _, _, _, _, _, _)
map_walk(m, t, level, a, pa, p, leaf_level) ==
    LET idx   == table_index_at_level(m.stage, a, level)
        entry == load(m, t, idx)
    IN  IF level < leaf_level
        THEN IF entry_is_valid(entry)
             THEN IF ~entry_is_table(m.stage, level, entry)
                  THEN [m |-> m, ret |-> "invalid"]
                  ELSE map_walk(m, pa_to_pte(m, pte_to_phys(entry)), level + 1,
                                a, pa, p, leaf_level)
             ELSE CHOOSE out \in
                      {(IF r.ret # "ok" THEN [m |-> r.m, ret |-> r.ret]
                        ELSE map_walk(r.m, pa_to_pte(r.m, r.child), level + 1,
                                      a, pa, p, leaf_level))
                       : r \in {alloc_and_link_table(m, t, idx,
                                                     addr_at_level(m.stage, a, level),
                                                     level_size(m.stage, level))}} : TRUE
        ELSE map_leaf(m, t, idx, a, pa, p, leaf_level)

map_one(m, a, pa, p, leaf_level) == map_walk(m, root_va(m), 0, a, pa, p, leaf_level)

\* unmap_one.  Returns [m, ret].
RECURSIVE unmap_walk(_, _, _, _, _)
unmap_walk(m, t, level, a, leaf_level) ==
    LET idx   == table_index_at_level(m.stage, a, level)
        entry == load(m, t, idx)
    IN  IF level < leaf_level
        THEN IF ~entry_is_valid(entry) THEN [m |-> m, ret |-> "ok"]
             ELSE CHOOSE out \in
                      {(IF r.ret # "ok" THEN r
                        ELSE IF ~entry_is_table(m.stage, level, load(r.m, t, idx))
                             THEN [m |-> r.m, ret |-> "ok"]
                        ELSE unmap_walk(r.m, pa_to_pte(r.m, pte_to_phys(load(r.m, t, idx))),
                                        level + 1, a, leaf_level))
                       : r \in {split_block(m, addr_at_level(m.stage, a, level),
                                            t, idx, level)}} : TRUE
        ELSE IF ~entry_is_valid(entry) THEN [m |-> m, ret |-> "ok"]
             ELSE CHOOSE out \in
                      {(IF entry_is_table(m.stage, leaf_level, entry)
                        THEN [m |-> free_subtree(m1, pte_to_phys(entry), leaf_level + 1),
                              ret |-> "ok"]
                        ELSE [m |-> m1, ret |-> "ok"])
                       : m1 \in {write_pte_and_sync(m, "REMOVE",
                                                    addr_at_level(m.stage, a, leaf_level),
                                                    level_size(m.stage, leaf_level),
                                                    t, idx, FAULT)}} : TRUE

unmap_one(m, a, leaf_level) == unmap_walk(m, root_va(m), 0, a, leaf_level)

\* A protect_one that re-encodes the leaf without its output address.
protect_leaf_drop_pa(m, a, p, leaf_level, t, idx) ==
    write_pte_and_sync(m, "UPDATE", addr_at_level(m.stage, a, leaf_level),
                       level_size(m.stage, leaf_level), t, idx,
                       entry_at_level(m.stage, 0, p, leaf_level))

\* The leaf update of protect_one: t[idx] is a valid page or block.
protect_leaf(m, a, p, leaf_level, t, idx) ==
    write_pte_and_sync(m, "UPDATE", addr_at_level(m.stage, a, leaf_level),
                       level_size(m.stage, leaf_level), t, idx,
                       entry_at_level(m.stage, pte_to_phys(load(m, t, idx)), p, leaf_level))

\* protect_one.  Returns [m, ret].
RECURSIVE protect_walk(_, _, _, _, _, _)
protect_walk(m, t, level, a, p, leaf_level) ==
    LET idx   == table_index_at_level(m.stage, a, level)
        entry == load(m, t, idx)
    IN  IF level < leaf_level
        THEN IF ~entry_is_valid(entry) THEN [m |-> m, ret |-> "invalid"]
             ELSE CHOOSE out \in
                      {(IF r.ret # "ok" THEN r
                        ELSE IF ~entry_is_table(m.stage, level, load(r.m, t, idx))
                             THEN [m |-> r.m, ret |-> "invalid"]
                        ELSE protect_walk(r.m, pa_to_pte(r.m, pte_to_phys(load(r.m, t, idx))),
                                          level + 1, a, p, leaf_level))
                       : r \in {split_block(m, addr_at_level(m.stage, a, level),
                                            t, idx, level)}} : TRUE
        ELSE IF ~entry_is_valid(entry) THEN [m |-> m, ret |-> "invalid"]
             ELSE IF entry_is_table(m.stage, leaf_level, entry)
                  THEN [m |-> protect_subtree(m, addr_at_level(m.stage, a, leaf_level),
                                              pte_to_phys(entry), leaf_level + 1, p),
                        ret |-> "ok"]
             ELSE [m |-> protect_leaf(m, a, p, leaf_level, t, idx), ret |-> "ok"]

protect_one(m, a, p, leaf_level) == protect_walk(m, root_va(m), 0, a, p, leaf_level)

\* A map_range loop that goes on to the next page when a step fails, and
\* reports the failure at the end.
RECURSIVE map_loop_skip(_, _, _, _, _)
map_loop_skip(m, a, pa, size, p) ==
    IF size = 0 THEN [m |-> m, ret |-> "ok"]
    ELSE CHOOSE out \in
             {(LET map_sz == level_size(m.stage, leaf)
               IN  CHOOSE res \in
                       {(IF r.ret # "ok"
                         THEN [m |-> map_loop_skip(
                                         r.m, [a EXCEPT !.addr = Wrap(a.addr + granule_size)],
                                         Wrap(pa + granule_size),
                                         IF size > granule_size THEN size - granule_size ELSE 0,
                                         p).m,
                               ret |-> r.ret]
                         ELSE map_loop_skip(r.m, [a EXCEPT !.addr = Wrap(a.addr + map_sz)],
                                            Wrap(pa + map_sz),
                                            IF size > map_sz THEN size - map_sz ELSE 0, p))
                        : r \in {map_one(m, a, pa, p, leaf)}} : TRUE)
              : leaf \in {choose_leaf_level(m.stage, a, pa, size)}} : TRUE

\* The while (size) loops of map_range, protect_range and unmap_range.
RECURSIVE map_loop(_, _, _, _, _)
map_loop(m, a, pa, size, p) ==
    IF size = 0 THEN [m |-> m, ret |-> "ok"]
    ELSE CHOOSE out \in
             {(LET map_sz == level_size(m.stage, leaf)
               IN  CHOOSE res \in
                       {(IF r.ret # "ok" THEN r
                         ELSE map_loop(r.m, [a EXCEPT !.addr = Wrap(a.addr + map_sz)],
                                       Wrap(pa + map_sz),
                                       IF size > map_sz THEN size - map_sz ELSE 0, p))
                        : r \in {map_one(m, a, pa, p, leaf)}} : TRUE)
              : leaf \in {choose_leaf_level(m.stage, a, pa, size)}} : TRUE

\* map_range without its early return for an empty range.
map_range_no_empty(m, a, pa, size, p) ==
    IF ~is_align(a.addr, granule_size) \/ ~is_align(pa, granule_size)
    THEN [m |-> m, ret |-> "invalid"]
    ELSE IF Wrap(a.addr + size) < a.addr \/ Wrap(pa + size) < pa
         THEN [m |-> m, ret |-> "overflow"]
    ELSE map_loop(m, a, pa, size, p)

map_range(m, a, pa, size, p) ==
    IF size = 0 THEN [m |-> m, ret |-> "ok"]
    ELSE IF ~is_align(a.addr, granule_size) \/ ~is_align(pa, granule_size)
         THEN [m |-> m, ret |-> "invalid"]
    ELSE IF Wrap(a.addr + size) < a.addr \/ Wrap(pa + size) < pa
         THEN [m |-> m, ret |-> "overflow"]
    ELSE map_loop(m, a, pa, size, p)

RECURSIVE protect_loop(_, _, _, _)
protect_loop(m, a, size, p) ==
    IF size = 0 THEN [m |-> m, ret |-> "ok"]
    ELSE LET leaf  == levels(m.stage) - 1
             chunk == level_size(m.stage, leaf)
         IN  CHOOSE out \in
                 {(IF r.ret # "ok" THEN r
                   ELSE protect_loop(r.m, [a EXCEPT !.addr = Wrap(a.addr + chunk)],
                                     IF size > chunk THEN size - chunk ELSE 0, p))
                  : r \in {protect_one(m, a, p, leaf)}} : TRUE

protect_range(m, a, size, p) ==
    IF size = 0 THEN [m |-> m, ret |-> "ok"]
    ELSE IF ~is_align(a.addr, granule_size) THEN [m |-> m, ret |-> "invalid"]
    ELSE IF Wrap(a.addr + size) < a.addr THEN [m |-> m, ret |-> "overflow"]
    ELSE protect_loop(m, a, size, p)

RECURSIVE unmap_loop(_, _, _)
unmap_loop(m, a, size) ==
    IF size = 0 THEN [m |-> m, ret |-> "ok"]
    ELSE LET leaf  == levels(m.stage) - 1
             chunk == level_size(m.stage, leaf)
         IN  CHOOSE out \in
                 {(IF r.ret # "ok" THEN r
                   ELSE unmap_loop(r.m, [a EXCEPT !.addr = Wrap(a.addr + chunk)],
                                   IF size > chunk THEN size - chunk ELSE 0))
                  : r \in {unmap_one(m, a, leaf)}} : TRUE

unmap_range(m, a, size) ==
    IF size = 0 THEN [m |-> m, ret |-> "ok"]
    ELSE IF ~is_align(a.addr, granule_size) THEN [m |-> m, ret |-> "invalid"]
    ELSE IF Wrap(a.addr + size) < a.addr THEN [m |-> m, ret |-> "overflow"]
    ELSE unmap_loop(m, a, size)

\* page_table::init without its test for a table already set up.
pt_init_again(m) ==
    CHOOSE out \in
        {[m   |-> [r.m EXCEPT !.root_pa = r.pa],
          ret |-> IF r.pa = 0 THEN "nomem" ELSE "ok"]
         : r \in {alloc_single_pt([m EXCEPT !.allocator = TRUE])}} : TRUE

\* page_table::init(a).  Returns [m, ret].
pt_init(m) ==
    IF m.allocator \/ m.root_pa # 0 THEN [m |-> m, ret |-> "invalid"]
    ELSE CHOOSE out \in
             {[m   |-> [r.m EXCEPT !.root_pa = r.pa],
               ret |-> IF r.pa = 0 THEN "nomem" ELSE "ok"]
              : r \in {alloc_single_pt([m EXCEPT !.allocator = TRUE])}} : TRUE

\* page_table::deinit().
pt_deinit(m) ==
    IF m.root_pa # 0
    THEN [free_subtree(m, m.root_pa, 0) EXCEPT !.root_pa = 0]
    ELSE m

(***************************************************************************)
(* What the translation hardware makes of the tables: the walk of input    *)
(* address addr from the table at root.  A descriptor of type BLOCK at the *)
(* last level is reserved and translates nothing.                          *)
(***************************************************************************)
NoTranslation == [valid |-> FALSE, pa |-> 0, attr |-> NoAttr, level |-> 0]

RECURSIVE walk(_, _, _, _, _)
walk(mm, stage, t, level, addr) ==
    LET idx   == (addr \div Pow2(level_shift(stage, level))) % entries_per_table
        entry == mm[t][idx]
        off   == addr % level_size(stage, level)
    IN  IF t \notin DOMAIN mm \/ pte_is_fault(entry) THEN NoTranslation
        ELSE IF level + 1 < levels(stage)
             THEN IF pte_is_block(entry)
                  THEN [valid |-> TRUE, pa |-> entry.pa + off, attr |-> entry.attr,
                        level |-> level]
                  ELSE walk(mm, stage, entry.pa, level + 1, addr)
        ELSE IF pte_is_table_or_page(entry)
             THEN [valid |-> TRUE, pa |-> entry.pa + off, attr |-> entry.attr,
                   level |-> level]
             ELSE NoTranslation

translate(mm, stage, root, addr) ==
    IF root = 0 THEN NoTranslation ELSE walk(mm, stage, root, 0, addr)

(***************************************************************************)
(* Synchronisation (ukernel/include/sync.hpp).  A spin_lock is the record  *)
(* [state].  A CPU is the record                                           *)
(*   [pc, event, daif, f, irq, before]                                     *)
(* of its position in the call it is making, its event register, the mask  *)
(* bits set in its DAIF, the flags lock_irqsave returned to it, whether    *)
(* the call is the irqsave variant, and the DAIF it had when it made the   *)
(* call.  Atomic operations on state take effect one at a time, and the    *)
(* release store of unlock is visible to the other CPUs when its SEV       *)
(* signals them.  Nothing but SEV and SEVL sets an event register.         *)
(***************************************************************************)
\* Number of CPUs.
NCpu == 2
CPUs == 1 .. NCpu

\* spin_lock{}: state{} is zero.
Unlocked == [state |-> 0]

IdleCpu(event, daif) ==
    [pc |-> "idle", event |-> event, daif |-> daif, f |-> {}, irq |-> FALSE,
     before |-> {}]

\* A compare-and-swap that stores without comparing.
try_lock_blind(l) == [l |-> [l EXCEPT !.state = 1], ok |-> TRUE]

\* __atomic_compare_exchange_n(&state, &expected, 1, ...) with expected = 0:
\* [l |-> the lock after it, ok |-> what it returns].
try_lock(l) ==
    IF l.state = 0 THEN [l |-> [l EXCEPT !.state = 1], ok |-> TRUE]
    ELSE [l |-> l, ok |-> FALSE]

\* __atomic_load_n(&state, __ATOMIC_RELAXED)
load_state(l) == l.state

\* __atomic_store_n(&state, 0, __ATOMIC_RELEASE)
store_unlocked(l) == [l EXCEPT !.state = 0]

\* SEVL: sets the event register of the CPU that executes it.
sevl(c) == [c EXCEPT !.event = TRUE]

\* WFE returns only when the event register is set, and clears it.
wfe_ready(c) == c.event
wfe(c) == [c EXCEPT !.event = FALSE]

\* An event that reaches only the CPU that sends it.
sev_self(cs, self) == [cs EXCEPT ![self] = sevl(cs[self])]

\* SEV by CPU self: sets the event register of every CPU.
sev(cs, self) == [c \in DOMAIN cs |-> sevl(cs[c])]

\* Flags read after they were masked.
irq_save_late(daif) == [f |-> daif \cup {"I", "F"}, daif |-> daif \cup {"I", "F"}]

\* irq_save: [f |-> DAIF as read, daif |-> DAIF after DAIFSet(fiq | irq)].
irq_save(daif) == [f |-> daif, daif |-> daif \cup {"I", "F"}]

\* irq_restore(f): DAIF after the write.
irq_restore(f) == f

(***************************************************************************)
(* CPU feature negotiation (ukernel/src/mm_paging.cpp).  Widths are the    *)
(* architecture's own, not scaled: a build is the pair                     *)
(* [page_shift, va_bits] of its configuration, a CPU the record            *)
(* [el, gran, vh, st, pa_range] of what its ID registers report.           *)
(* TCR_EL2 and VTCR_EL2 values are records of their fields.  A function    *)
(* that ends in xino::cpu::panic() returns Panic.                          *)
(***************************************************************************)
Panic == -1

PaRanges ==
    {"pa_32_bits", "pa_36_bits", "pa_40_bits", "pa_42_bits", "pa_44_bits",
     "pa_48_bits", "pa_52_bits"}

parange_bits(pa_range) ==
    CASE pa_range = "pa_32_bits" -> 32
      [] pa_range = "pa_36_bits" -> 36
      [] pa_range = "pa_40_bits" -> 40
      [] pa_range = "pa_42_bits" -> 42
      [] pa_range = "pa_44_bits" -> 44
      [] pa_range = "pa_48_bits" -> 48
      [] OTHER -> 48

ps_for_bits(bits) ==
    IF bits <= 32 THEN 0
    ELSE IF bits <= 36 THEN 1
    ELSE IF bits <= 40 THEN 2
    ELSE IF bits <= 42 THEN 3
    ELSE IF bits <= 44 THEN 4
    ELSE 5

\* root_hw_level_for_bits for the granule of build cfg.
root_hw_level_of(cfg, addr_bits) == 4 - ((addr_bits - 4) \div (cfg.page_shift - 3))

tcr_tg0(cfg) == IF cfg.page_shift = 12 THEN "granule_4k" ELSE "granule_16k"
tcr_tg1(cfg) == IF cfg.page_shift = 12 THEN "granule_4k" ELSE "granule_16k"
vtcr_tg0(cfg) == IF cfg.page_shift = 12 THEN "granule_4k" ELSE "granule_16k"

vtcr_sl0(cfg, hw, ipa) ==
    LET root == root_hw_level_of(cfg, ipa)
    IN  IF cfg.page_shift = 12
        THEN CASE root = 0 -> 2
               [] root = 1 -> 1
               [] root = 2 -> 0
               [] root = 3 /\ hw.st -> 3
               [] OTHER -> Panic
        ELSE CASE root = 1 -> 2
               [] root = 2 -> 1
               [] root = 3 -> 0
               [] OTHER -> Panic

make_mair_el2 == 255 + 0 * 256

make_tcr_el2(cfg, pa, va) ==
    [t0sz |-> 64 - va, irgn0 |-> "wb_with_wa", orgn0 |-> "wb_with_wa",
     sh0 |-> "inner_shareable", tg0 |-> tcr_tg0(cfg),
     t1sz |-> 64 - va, irgn1 |-> "wb_with_wa", orgn1 |-> "wb_with_wa",
     sh1 |-> "inner_shareable", tg1 |-> tcr_tg1(cfg),
     ips |-> ps_for_bits(pa)]

\* The value it returns; it does not return when vtcr_sl0 panics.
make_vtcr_el2(cfg, hw, pa, ipa) ==
    [t0sz |-> 64 - ipa, irgn0 |-> "wb_with_wa", orgn0 |-> "wb_with_wa",
     sh0 |-> "inner_shareable", tg0 |-> vtcr_tg0(cfg),
     sl0 |-> vtcr_sl0(cfg, hw, ipa), ps |-> ps_for_bits(pa)]

\* inline struct cpu_state state: zero-initialised.
ZeroCpuState ==
    [pa_bits |-> 0, ipa_bits |-> 0, feat_vhe |-> FALSE, mair_el2 |-> 0,
     tcr_el2 |-> 0, vtcr_el2 |-> 0]

\* A later CPU that takes over the shared state whenever its width differs.
init_paging_any_change(cfg, hw, st) ==
    IF hw.el # 2 \/ ~hw.gran \/ ~hw.vh THEN [st |-> st, done |-> FALSE]
    ELSE LET pa   == parange_bits(hw.pa_range)
             va   == cfg.va_bits
             ipa  == IF va < pa THEN va ELSE pa
             sl0  == vtcr_sl0(cfg, hw, ipa)
             tcr  == make_tcr_el2(cfg, pa, va)
             vtcr == make_vtcr_el2(cfg, hw, pa, ipa)
         IN  IF st.pa_bits = 0
             THEN LET s1 == [st EXCEPT !.pa_bits = pa, !.ipa_bits = ipa,
                                       !.feat_vhe = TRUE,
                                       !.mair_el2 = make_mair_el2,
                                       !.tcr_el2 = tcr]
                  IN  IF sl0 = Panic THEN [st |-> s1, done |-> FALSE]
                      ELSE [st |-> [s1 EXCEPT !.vtcr_el2 = vtcr], done |-> TRUE]
             ELSE IF pa # st.pa_bits
             THEN LET s1 == [st EXCEPT !.pa_bits = pa,
                                       !.ipa_bits = IF ipa < @ THEN ipa ELSE @,
                                       !.tcr_el2 = tcr]
                  IN  IF sl0 = Panic THEN [st |-> s1, done |-> FALSE]
                      ELSE [st |-> [s1 EXCEPT !.vtcr_el2 = vtcr], done |-> TRUE]
             ELSE [st |-> st, done |-> TRUE]

\* init_paging on CPU hw with shared state st:
\* [st |-> the shared state it leaves, done |-> FALSE when it panicked].
init_paging(cfg, hw, st) ==
    IF hw.el # 2 \/ ~hw.gran \/ ~hw.vh THEN [st |-> st, done |-> FALSE]
    ELSE LET pa   == parange_bits(hw.pa_range)
             va   == cfg.va_bits
             ipa  == IF va < pa THEN va ELSE pa
             sl0  == vtcr_sl0(cfg, hw, ipa)
             tcr  == make_tcr_el2(cfg, pa, va)
             vtcr == make_vtcr_el2(cfg, hw, pa, ipa)
         IN  IF st.pa_bits = 0
             THEN LET s1 == [st EXCEPT !.pa_bits = pa, !.ipa_bits = ipa,
                                       !.feat_vhe = TRUE,
                                       !.mair_el2 = make_mair_el2,
                                       !.tcr_el2 = tcr]
                  IN  IF sl0 = Panic THEN [st |-> s1, done |-> FALSE]
                      ELSE [st |-> [s1 EXCEPT !.vtcr_el2 = vtcr], done |-> TRUE]
             ELSE IF pa < st.pa_bits
             THEN LET s1 == [st EXCEPT !.pa_bits = pa,
                                       !.ipa_bits = IF ipa < @ THEN ipa ELSE @,
                                       !.tcr_el2 = tcr]
                  IN  IF sl0 = Panic THEN [st |-> s1, done |-> FALSE]
                      ELSE [st |-> [s1 EXCEPT !.vtcr_el2 = vtcr], done |-> TRUE]
             ELSE [st |-> st, done |-> TRUE]

(***************************************************************************)
(* State.                                                                  *)
(***************************************************************************)
VARIABLES
    boot_allocator,     \* xino::runtime::boot_allocator, a buddy<Order>
    mem,                \* the pool's pages as translation tables
    pt,                 \* a page_table object: [allocator, root_pa]
    stage,              \* its template parameter Stage
    va_layout_enabled,  \* xino::mm::va_layout::va_layout_enabled
    pool,               \* the [pa, size] boot_allocator was initialised with
    outstanding,        \* <<pa, order>> handed out by alloc_pages, not yet freed
    last,               \* the last call: its arguments, result and effects
    spin,               \* a xino::sync::spin_lock
    cpu,                \* the CPUs that use it
    cpu_state,          \* xino::cpu::state, the shared struct cpu_state
    config,             \* the build: UKERNEL_PAGE_SHIFT, UKERNEL_VA_BITS
    booted,             \* the CPUs that have called init_paging, in order
    use_mapping,        \* xino::runtime::use_mapping
    linker,             \* __percpu_aligned_start, __percpu_end
    percpu,             \* xino::percpu's statics: base, unit, nr_cpus
    tpidr_el2,          \* TPIDR_EL2 of each CPU
    dram,               \* the bytes stored since the image was loaded
    pcpu,               \* the boot flow so far, and the last this_cpu() read
    gz,                 \* a call of decompress_gzip: its buffers, locals and position
    efi,                \* __efistub_efi_entry: its locals, position and boot-service calls
    fw,                 \* the UEFI firmware: memory map, map key, configuration tables
    rel,                \* the self-relocator: .rela.dyn, the image, the entry it is at
    io,                 \* a call of snprintf: its arguments, the buffer, the result
    rng,                \* a walk over an address_range: the range, the addresses visited
    script,             \* a client that makes calls in a fixed order: where it is, what it saw
    formatter           \* vsnprintf.c: its static iob_count, and the calls of iob_vsnprintf in progress

mm_vars == <<boot_allocator, mem, pt, stage, va_layout_enabled, pool, outstanding, last>>
sync_vars == <<spin, cpu>>
boot_vars == <<cpu_state, config, booted, use_mapping>>

percpu_vars == <<linker, percpu, tpidr_el2, dram, pcpu>>
gzip_vars == <<gz>>
efi_vars == <<efi, fw>>
lib_vars == <<rel, io, rng, script, formatter>>
rest_vars == <<percpu_vars, gzip_vars, efi_vars, lib_vars>>

vars == <<mm_vars, sync_vars, boot_vars, rest_vars>>

mk_last(op) ==
    [op |-> op, a |-> NoAddr, pa |-> 0, size |-> 0, order |-> 0, p |-> {},
     ret |-> "ok", held |-> FALSE, ev |-> <<>>]

\* Junk a page of the pool holds before alloc_single_pt initialises it.
Poison == [type |-> PTE_TYPE_PAGE_OR_TABLE, pa |-> 0, attr |-> NoAttr]

pool_page_set(b) == {b.base_pa + i * page_size : i \in 0 .. (b.pool_pages - 1)}

\* Pools of the allocator-only specifications: a full tree, and a pool whose
\* unaligned ends leave a page count that is not a power of two.
PoolInputs ==
    {[pa |-> page_size, size |-> Pow2(Order) * page_size],
     [pa |-> page_size + 1, size |-> Pow2(Order) * page_size]}

\* Pages of the pool the page-table specification runs on.
PtPoolPages == 3
PtPool == [pa |-> page_size, size |-> PtPoolPages * page_size]

InitMM(pools, stages, mmus) ==
    /\ pool \in pools
    /\ boot_allocator = init(pool.pa, pool.size).b
    /\ mem = [q \in pool_page_set(boot_allocator) |->
                 [i \in 0 .. (entries_per_table - 1) |-> Poison]]
    /\ pt = [allocator |-> FALSE, root_pa |-> 0]
    /\ stage \in stages
    /\ va_layout_enabled \in mmus
    /\ outstanding = {}
    /\ last = mk_last("boot")

\* No CPU uses the lock.
IdleSync ==
    /\ spin = Unlocked
    /\ cpu = [c \in CPUs |-> IdleCpu(FALSE, {})]

\* No CPU has called init_paging.
IdleBoot ==
    /\ cpu_state = ZeroCpuState
    /\ config = [page_shift |-> 12, va_bits |-> 39]
    /\ booted = <<>>
    /\ use_mapping = FALSE

(***************************************************************************)
(* Per-CPU storage (percpu.cpp, percpu.hpp).  Addresses are words of       *)
(* AddrBits bits.  dram holds the bytes stored since the image was         *)
(* loaded; a byte never stored holds what the loader left there.           *)
(***************************************************************************)
UKERNEL_CACHE_LINE == 4

CpuIdx == 0 .. (NCpu - 1)

\* What a byte holds that nothing has stored to.
Loaded == [cpu |-> -1, phase |-> "image"]

load_byte(r, a) == IF a \in DOMAIN r THEN r[a] ELSE Loaded

store_byte(r, a, v) == [x \in DOMAIN r \cup {a} |-> IF x = a THEN v ELSE r[x]]

\* memcpy(dst, src, n).
memcpy(r, dst, src, n) ==
    LET to == {Wrap(dst + i) : i \in 0 .. (n - 1)}
    IN  [x \in DOMAIN r \cup to |->
            IF x \in to THEN load_byte(r, Wrap(src + Wrap(x - dst))) ELSE r[x]]

\* A replica base that forgets the size of a replica.
cpu_base_packed(st, cpu_idx) == Wrap(st.base + cpu_idx)

cpu_base(st, cpu_idx) == Wrap(st.base + Wrap(st.unit * cpu_idx))

percpu_size(ln) == Wrap(ln.percpu_end - ln.percpu_aligned_start)

\* this_cpu_addr(sym) on a CPU whose TPIDR_EL2 holds tpidr.
this_cpu_addr(ln, tpidr, sym) == Wrap(Wrap(tpidr + sym) - ln.percpu_aligned_start)

\* The heap the kernel allocates from, and what aligned_alloc(align, size)
\* may return: null, or the aligned start of size bytes of it.
HeapStart == 8 * UKERNEL_CACHE_LINE
HeapEnd == HeapStart + 2 * (NCpu + 1) * UKERNEL_CACHE_LINE

aligned_alloc(align, size) ==
    {0} \cup {b \in HeapStart .. HeapEnd : b % align = 0 /\ b + size <= HeapEnd}

\* percpu_init(ncpu) when its allocation returns block.
\* Returns [st, ram, tpidr (of the calling CPU), ret].
percpu_init(ln, st, r, tpidr, ncpu, block) ==
    LET unit  == percpu_size(ln)
        st1   == [st EXCEPT !.unit = unit]
        st2   == [st1 EXCEPT !.nr_cpus = ncpu]
        bytes == Wrap(unit * ncpu)
        st3   == [st2 EXCEPT !.base = block]
        RECURSIVE copy(_, _)
        copy(rr, c) == IF c >= ncpu THEN rr
                       ELSE copy(memcpy(rr, cpu_base(st3, c), ln.percpu_aligned_start, unit),
                                 c + 1)
    IN  IF unit = 0 THEN [st |-> st1, ram |-> r, tpidr |-> tpidr, ret |-> "ok"]
        ELSE IF ncpu = 0 THEN [st |-> st2, ram |-> r, tpidr |-> tpidr, ret |-> "invalid"]
        ELSE IF bytes \div unit # ncpu
             THEN [st |-> st2, ram |-> r, tpidr |-> tpidr, ret |-> "overflow"]
        ELSE IF block = 0 THEN [st |-> st3, ram |-> r, tpidr |-> tpidr, ret |-> "nomem"]
        ELSE [st |-> st3, ram |-> copy(r, 0), tpidr |-> cpu_base(st3, 0), ret |-> "ok"]

\* The linked images: no per-CPU variable, one cache line of them, two, and
\* a template so large that two replicas overflow a word.
Templates ==
    {[percpu_aligned_start |-> UKERNEL_CACHE_LINE, percpu_end |-> UKERNEL_CACHE_LINE + n]
        : n \in {0, UKERNEL_CACHE_LINE, 2 * UKERNEL_CACHE_LINE}}
    \cup {[percpu_aligned_start |-> AddrSpace \div 4, percpu_end |-> 3 * (AddrSpace \div 4)]}

\* The per-CPU variables of an image: the addresses of its template, one to
\* a cache line.
Syms(ln) ==
    {a \in {ln.percpu_aligned_start, ln.percpu_aligned_start + UKERNEL_CACHE_LINE} :
        a < ln.percpu_end}

\* Before percpu_bootstrap_init: TPIDR_EL2 is whatever reset left in it.
IdlePercpu ==
    /\ linker = [percpu_aligned_start |-> UKERNEL_CACHE_LINE,
                 percpu_end |-> 2 * UKERNEL_CACHE_LINE]
    /\ percpu = [base |-> 0, unit |-> 0, nr_cpus |-> 0]
    /\ tpidr_el2 = [c \in CpuIdx |-> 0]
    /\ dram = << >>
    /\ pcpu = [phase |-> "reset", ret |-> "none", ncpu |-> 0, installed |-> {},
               seen |-> [cpu |-> -1, sym |-> 0, addr |-> 0, val |-> Loaded]]

\* struct deflate before deflate_buffer fills it in, and no call in progress.
NoTree == [bl_count |-> [l \in 0 .. 15 |-> 0], sorted_symbols |-> << >>]

NoDeflate ==
    [in_ptr |-> 0, in_end |-> 0, error |-> 0, bit_accum |-> 0, nr_bits |-> 0,
     dest_size |-> 0, ll |-> NoTree, distance |-> NoTree]

NoCall(source, dest_len) ==
    [pc |-> "idle", src |-> source, d |-> NoDeflate, out |-> << >>, dest0 |-> 0,
     block_final |-> 0, inner |-> 0, dest_len |-> dest_len, ret |-> 0]

IdleGzip == gz = NoCall(<< >>, 0)

\* EFI_STATUS: <<the error bit, the code>>.
EFI_SUCCESS == <<0, 0>>
EFI_LOAD_ERROR == <<1, 1>>
EFI_INVALID_PARAMETER == <<1, 2>>
EFI_BUFFER_TOO_SMALL == <<1, 5>>
\* Statuses of the firmware that the stub does not name.
EFI_DEVICE_ERROR == <<1, 7>>
EFI_OUT_OF_RESOURCES == <<1, 9>>

NoStatus == <<-1, -1>>
NoJump == -1
NoFirmware == [key |-> 0, bs |-> TRUE, ndesc |-> 0, config_table |-> << >>]
NoEntry ==
    [pc |-> "off", gzdata |-> << >>, payload_size |-> 0, pages |-> NoStatus,
     alloc_addr |-> 0, fdt |-> 0, alloc_size |-> 0, map_key |-> 0, calls |-> << >>,
     arg |-> NoJump, target |-> 0, ret |-> NoStatus]
IdleEfi == efi = NoEntry /\ fw = NoFirmware

NoReloc ==
    [pc |-> "off", rela |-> << >>, k |-> 1, image |-> << >>, phys_base |-> 0, bias |-> 0,
     wfe |-> 0]
NoPrint == [pc |-> "off", size |-> 0, fmt |-> << >>, args |-> << >>, mem |-> << >>, ret |-> 0]
NoRange ==
    [pc |-> "off", range |-> [first |-> 0, last |-> 0, step |-> 1],
     it |-> [cur |-> 0, step |-> 1], visited |-> << >>]
NoScript == [pc |-> "off"]
NoVsnprintf == [pc |-> "off", chunks |-> << >>, reg |-> 0, own |-> 0, ret |-> 0, alone |-> TRUE]
NoFormatter == [iob_count |-> 0, call |-> [c \in CpuIdx |-> NoVsnprintf]]
IdleLib == rel = NoReloc /\ io = NoPrint /\ rng = NoRange /\ script = NoScript /\ formatter = NoFormatter

IdleRest == IdlePercpu /\ IdleGzip /\ IdleEfi /\ IdleLib

InitWith(pools, stages, mmus) ==
    InitMM(pools, stages, mmus) /\ IdleSync /\ IdleBoot /\ IdleRest

IdleKernel == InitWith({PtPool}, {"ST_1"}, {TRUE})

(***************************************************************************)
(* Calls on the allocator.                                                 *)
(***************************************************************************)
\* alloc_pages(nothrow, order)
AllocPages(order) ==
    LET r == buddy_alloc_pages(boot_allocator, order)
    IN  /\ boot_allocator' = r.b
        /\ outstanding' = IF r.pa # 0 THEN outstanding \cup {<<r.pa, order>>}
                                      ELSE outstanding
        /\ last' = [mk_last("alloc_pages") EXCEPT !.order = order, !.pa = r.pa]
        /\ UNCHANGED <<mem, pt, stage, va_layout_enabled, pool>>
        /\ UNCHANGED <<sync_vars, boot_vars, rest_vars>>

free_call(pa, order) ==
    /\ boot_allocator' = buddy_free_pages(boot_allocator, pa, order)
    /\ outstanding' = outstanding \ {<<pa, order>>}
    /\ last' = [mk_last("free_pages") EXCEPT !.order = order, !.pa = pa,
                                             !.held = (<<pa, order>> \in outstanding)]
    /\ UNCHANGED <<mem, pt, stage, va_layout_enabled, pool>>
    /\ UNCHANGED <<sync_vars, boot_vars, rest_vars>>

\* free_pages(pa, order) of a block alloc_pages(order) returned.
FreePages(x) == x \in outstanding /\ free_call(x[1], x[2])

\* The free_pages call just made on an allocated block, made again.
FreePagesAgain ==
    /\ last.op = "free_pages" /\ last.held
    /\ free_call(last.pa, last.order)

\* free_pages with any arguments.
FreePagesAny(pa, order) == free_call(pa, order)

Orders == 0 .. Order
FreeAddrs ==
    pool_page_set(boot_allocator)
        \cup {boot_allocator.base_pa - page_size, boot_allocator.base_pa + 1,
              boot_allocator.end_pa}

InitBuddy == InitWith(PoolInputs, {"ST_1"}, {FALSE})

NextBuddy ==
    \/ \E order \in Orders : AllocPages(order)
    \/ \E x \in outstanding : FreePages(x)

NextBuddyAgain ==
    \/ \E order \in Orders : AllocPages(order)
    \/ \E x \in outstanding : FreePages(x)
    \/ FreePagesAgain

NextBuddyAny ==
    \/ \E order \in Orders : AllocPages(order)
    \/ \E pa \in FreeAddrs, order \in Orders : FreePagesAny(pa, order)

\* Disciplined clients.
SpecBuddy == InitBuddy /\ [][NextBuddy]_vars
\* Clients that may repeat a free.
SpecBuddyAgain == InitBuddy /\ [][NextBuddyAgain]_vars
\* Clients that pass anything.
SpecBuddyAny == InitBuddy /\ [][NextBuddyAny]_vars

(***************************************************************************)
(* Properties of the allocator.                                            *)
(***************************************************************************)
same_bitmaps(b1, b2) == b1.free_bits = b2.free_bits /\ b1.split_bits = b2.split_bits

\* C1: a free_pages call on a block that is not allocated, because the same
\* call has just freed it, changes neither free_bits nor split_bits.
C1_DoubleFreeRejected ==
    [][(/\ last.op = "free_pages" /\ last.held
        /\ last'.op = "free_pages" /\ ~last'.held
        /\ last'.pa = last.pa /\ last'.order = last.order)
       => same_bitmaps(boot_allocator', boot_allocator)]_vars

\* C2: when a disciplined client has freed every block it was given, in
\* whatever order, both bitmaps are what init left.
C2_AllFreedRestoresInit ==
    outstanding = {} => same_bitmaps(boot_allocator, init(pool.pa, pool.size).b)

\* The last of several single pages has been freed: the free coalesced all
\* the way up to the root.
C2_Witness ==
    /\ outstanding = {}
    /\ last.op = "free_pages" /\ last.held /\ last.order = 0
    /\ last.pa # boot_allocator.base_pa
    /\ boot_allocator.max_ord > 1

\* C3: no node of the tree has both its free bit and its split bit set,
\* whatever arguments alloc_pages and free_pages were called with.
C3_NeverFreeAndSplit ==
    \A n \in 1 .. (node_count - 1) :
        ~(test_bit(boot_allocator.free_bits, n) /\ test_bit(boot_allocator.split_bits, n))

(***************************************************************************)
(* Calls on the page table.                                                *)
(***************************************************************************)
\* The machine a call starts on.
machine ==
    [mem |-> mem, b |-> boot_allocator, ev |-> <<>>, stage |-> stage,
     mmu |-> va_layout_enabled, allocator |-> pt.allocator, root_pa |-> pt.root_pa]

\* The blocks held after the allocator calls of trace ev: a table page is
\* held when the last call of ev that names it is alloc_pages, or when no call
\* names it and it was held before.
account(held, ev) ==
    LET calls(x) == {i \in DOMAIN ev : /\ ev[i].e \in {"alloc_pages", "free_pages"}
                                       /\ x = <<ev[i].tbl, 0>>}
        final(x) == CHOOSE i \in calls(x) : \A j \in calls(x) : j <= i
        taken    == {<<ev[i].tbl, 0>> :
                        i \in {j \in DOMAIN ev : ev[j].e = "alloc_pages" /\ ev[j].tbl # 0}}
    IN  {x \in held \cup taken :
            IF calls(x) = {} THEN TRUE ELSE ev[final(x)].e = "alloc_pages"}

\* The state a call leaves: machine m, and the record of the call.
commit_call(m, call) ==
    /\ mem' = m.mem
    /\ boot_allocator' = m.b
    /\ pt' = [allocator |-> m.allocator, root_pa |-> m.root_pa]
    /\ outstanding' = account(outstanding, m.ev)
    /\ last' = [call EXCEPT !.ev = m.ev]
    /\ UNCHANGED <<stage, va_layout_enabled, pool>>

\* The same for a call whose caller is not a scripted client.
commit(m, call) ==
    /\ commit_call(m, call)
    /\ UNCHANGED <<sync_vars, boot_vars, rest_vars>>

PtInit ==
    \E r \in {pt_init(machine)} :
        commit(r.m, [mk_last("init") EXCEPT !.ret = r.ret])

PtDeinit == commit(pt_deinit(machine), mk_last("deinit"))

\* Mapping calls are made on an initialised page table.
MapRangeCall(a, pa, size, p) ==
    /\ pt.root_pa # 0
    /\ \E r \in {map_range(machine, a, pa, size, p)} :
           commit_call(r.m, [mk_last("map_range") EXCEPT
                                !.a = a, !.pa = pa, !.size = size, !.p = p, !.ret = r.ret])

MapRange(a, pa, size, p) ==
    /\ MapRangeCall(a, pa, size, p)
    /\ UNCHANGED <<sync_vars, boot_vars, rest_vars>>

ProtectRange(a, size, p) ==
    /\ pt.root_pa # 0
    /\ \E r \in {protect_range(machine, a, size, p)} :
           commit(r.m, [mk_last("protect_range") EXCEPT
                           !.a = a, !.size = size, !.p = p, !.ret = r.ret])

UnmapRangeCall(a, size) ==
    /\ pt.root_pa # 0
    /\ \E r \in {unmap_range(machine, a, size)} :
           commit_call(r.m, [mk_last("unmap_range") EXCEPT
                                !.a = a, !.size = size, !.ret = r.ret])

UnmapRange(a, size) ==
    /\ UnmapRangeCall(a, size)
    /\ UNCHANGED <<sync_vars, boot_vars, rest_vars>>

\* Pages of the input-address window the calls work in.
WinPages == 4
\* ASID of the stage-1 address space.
Asid == 1

win_addr(i) == [addr |-> i * page_size, asid |-> IF stage = "ST_1" THEN Asid ELSE 0]
\* Ranges [a, a + size) of whole pages inside the window.
Ranges ==
    {r \in [a : {win_addr(i) : i \in 0 .. (WinPages - 1)},
            size : {n * page_size : n \in 1 .. WinPages}] :
        r.a.addr + r.size <= WinPages * page_size}
\* Output address mapped at input address a.
pa_base == level_size_for_bits(va_bits, 0)
PaFor(a) == {pa_base + a.addr}
Prots == {KERNEL_RW, KERNEL_RWX}

InitPT(mmus) == InitWith({PtPool}, Stages, mmus)

NextPT ==
    \/ PtInit
    \/ PtDeinit
    \/ \E r \in Ranges, p \in Prots : \E pa \in PaFor(r.a) : MapRange(r.a, pa, r.size, p)
    \/ \E r \in Ranges, p \in Prots : ProtectRange(r.a, r.size, p)
    \/ \E r \in Ranges : UnmapRange(r.a, r.size)

\* The page table of either stage, used with the MMU on.
SpecPT == InitPT({TRUE}) /\ [][NextPT]_vars
\* The same before the MMU is turned on.
SpecPTOff == InitPT({FALSE}) /\ [][NextPT]_vars

(***************************************************************************)
(* Properties of the page table.  They read the trace of the last call.    *)
(***************************************************************************)
MapOps == {"map_range", "protect_range", "unmap_range"}

is_tlbi(e) == e.e \in {"tlbi_vae2is", "tlbi_ipas2e1is"}
is_barrier(e) == e.e \in {"dmb_ishst", "dsb_ishst", "dsb_ish", "isb"}

\* A store into a slot of a table that is linked under the root (the stores
\* of alloc_single_pt and of split_block's fill go to a table not yet linked).
live_store(e) ==
    e.e = "store" /\ e.site \in {"write_pte_and_sync", "alloc_and_link_table", "free_subtree"}

\* Granule addresses of [addr, addr + size).
pages_of(addr, size) ==
    {addr + k * granule_size : k \in 0 .. ((size + granule_size - 1) \div granule_size) - 1}

inside(e, f) == f.a.addr <= e.a.addr /\ e.a.addr + e.size <= f.a.addr + f.size

\* Index of the first event of the set later, or Len(ev) + 1.
first_of(ev, later) ==
    IF later = {} THEN Len(ev) + 1 ELSE CHOOSE j \in later : \A k \in later : j <= k

\* Index of the first store to a live slot after event i.
first_live_after(ev, i) ==
    first_of(ev, {j \in (i + 1) .. Len(ev) : live_store(ev[j])})

\* Index of the first store to a live slot after event i, inside the range
\* of the slot stored at i.
first_live_inside_after(ev, i) ==
    first_of(ev, {j \in (i + 1) .. Len(ev) : live_store(ev[j]) /\ inside(ev[j], ev[i])})

\* Between events i and j: a dsb(ishst), then a TLBI for every granule of
\* the range that the slot stored at i translates.
synced_between(ev, i, j) ==
    \E d \in (i + 1) .. (j - 1) :
        /\ ev[d].e = "dsb_ishst"
        /\ \A q \in pages_of(ev[i].a.addr, ev[i].size) :
              \E k \in (d + 1) .. (j - 1) :
                  is_tlbi(ev[k]) /\ ev[k].a = [addr |-> q, asid |-> ev[i].a.asid]

\* C4: with the MMU on, no store of map_range, protect_range or unmap_range
\* turns a valid descriptor into another valid one; a valid descriptor is
\* first overwritten with FAULT, and the range it translated is invalidated
\* (dsb(ishst), then TLBI per granule) before the next store to a live slot.
C4_BreakBeforeMake ==
    (last.op \in MapOps /\ va_layout_enabled) =>
        \A i \in DOMAIN last.ev :
            (live_store(last.ev[i]) /\ entry_is_valid(last.ev[i].old)) =>
                /\ pte_is_fault(last.ev[i].new)
                /\ synced_between(last.ev, i, first_live_after(last.ev, i))

C4_Witness ==
    /\ va_layout_enabled /\ last.op = "protect_range" /\ last.ret = "ok"
    /\ \E i \in DOMAIN last.ev : last.ev[i].e = "store" /\ last.ev[i].site = "split_block"
    /\ \E i, j \in DOMAIN last.ev :
          /\ i < j
          /\ live_store(last.ev[i]) /\ live_store(last.ev[j])
          /\ last.ev[i].tbl = last.ev[j].tbl /\ last.ev[i].idx = last.ev[j].idx
          /\ pte_is_block(last.ev[i].old) /\ pte_is_fault(last.ev[i].new)
          /\ pte_is_table_or_page(last.ev[j].new)

freed_in(ev) == SelectSeq(ev, LAMBDA e : e.e = "free_pages")

\* C6: deinit() hands back to the allocator exactly the table pages taken
\* from it since init, each one once, leaves the allocator as init left it,
\* and sets the root to 0.
C6_DeinitReturnsAll ==
    [][last'.op = "deinit" =>
          LET fr == freed_in(last'.ev)
          IN  /\ \A i, j \in DOMAIN fr : i # j => fr[i].tbl # fr[j].tbl
              /\ {<<fr[i].tbl, 0>> : i \in DOMAIN fr} = outstanding
              /\ outstanding' = {}
              /\ same_bitmaps(boot_allocator', init(pool.pa, pool.size).b)
              /\ pt'.root_pa = 0]_vars

C6_Witness ==
    /\ last.op = "deinit"
    /\ Len(freed_in(last.ev)) = PtPoolPages
    /\ pt.root_pa = 0

\* Granules of the input range of a call.
call_pages(call) == pages_of(call.a.addr, call.size)

\* The slot holding the leaf descriptor that translates addr, with its
\* content, or a FAULT slot record if addr is not mapped.
RECURSIVE leaf_slot(_, _, _, _, _)
leaf_slot(mm, stg, t, level, addr) ==
    LET idx   == (addr \div Pow2(level_shift(stg, level))) % entries_per_table
        entry == mm[t][idx]
    IN  IF entry_is_table(stg, level, entry)
        THEN leaf_slot(mm, stg, entry.pa, level + 1, addr)
        ELSE [tbl |-> t, idx |-> idx, entry |-> entry]

C8_ProtectKeepsAddress ==
    [][(last'.op = "protect_range" /\ last'.ret = "ok") =>
          \A q \in call_pages(last') :
              LET was == translate(mem, stage, pt.root_pa, q)
                  now == translate(mem', stage, pt'.root_pa, q)
              IN  /\ was.valid /\ now.valid
                  /\ now.pa = was.pa
                  /\ now.pa = pa_base + q
                  /\ now.attr = encode_attrs(stage, last'.p, "DEVICE" \in last'.p)]_vars

C8_Witness ==
    /\ last.op = "protect_range" /\ last.ret = "ok" /\ last.p = KERNEL_RWX
    /\ last.size > page_size
    /\ \E i \in DOMAIN last.ev : last.ev[i].e = "store" /\ last.ev[i].site = "split_block"
    /\ \A q \in call_pages(last) :
          translate(mem, stage, pt.root_pa, q).attr = encode_attrs(stage, KERNEL_RWX, FALSE)

\* Every granule of the input address space.
all_pages == pages_of(0, Pow2(ia_bits(stage)))

what(tr) == [valid |-> tr.valid, pa |-> tr.pa, attr |-> tr.attr]

\* C9: protect_range and unmap_range change the translation of no page
\* outside their range: where they split a block, each page of it outside
\* the range still translates to block_pa + offset with the block's
\* attributes; a successful unmap_range leaves its own pages unmapped.
C9_SplitKeepsTheRest ==
    [][last'.op \in {"protect_range", "unmap_range"} =>
          /\ \A q \in all_pages \ call_pages(last') :
                what(translate(mem', stage, pt'.root_pa, q))
                    = what(translate(mem, stage, pt.root_pa, q))
          /\ (last'.op = "unmap_range" /\ last'.ret = "ok") =>
                \A q \in call_pages(last') : ~translate(mem', stage, pt'.root_pa, q).valid]_vars

C9_Witness ==
    /\ last.op = "unmap_range" /\ last.ret = "ok"
    /\ \E i \in DOMAIN last.ev : last.ev[i].e = "store" /\ last.ev[i].site = "split_block"
    /\ \E q \in all_pages \ call_pages(last) :
          LET tr == translate(mem, stage, pt.root_pa, q)
          IN  tr.valid /\ tr.level + 1 = levels(stage) /\ tr.pa = pa_base + q

\* C10 as stated: with the MMU off, map_range, protect_range and unmap_range
\* only store descriptors: no barrier, no TLB invalidation.
C10_StoresOnly ==
    (last.op \in MapOps /\ ~va_layout_enabled) =>
        \A i \in DOMAIN last.ev : ~is_barrier(last.ev[i]) /\ ~is_tlbi(last.ev[i])

\* C10 as the code has it: with the MMU off they issue no dsb, no isb and
\* no TLB invalidation; the one barrier is the dmb(ishst) that follows the
\* stores initialising a new table page (alloc_single_pt) or filling the
\* child table of a split block (split_block).
C10_OnlyTableFence ==
    (last.op \in MapOps /\ ~va_layout_enabled) =>
        \A i \in DOMAIN last.ev :
            /\ ~is_tlbi(last.ev[i])
            /\ is_barrier(last.ev[i]) =>
                  /\ last.ev[i].e = "dmb_ishst"
                  /\ last.ev[i].site \in {"alloc_single_pt", "split_block"}
                  /\ i > 1
                  /\ last.ev[i - 1].e = "store"
                  /\ last.ev[i - 1].site = last.ev[i].site

C10_Witness ==
    /\ ~va_layout_enabled /\ last.op = "unmap_range" /\ last.ret = "ok"
    /\ \E i \in DOMAIN last.ev : last.ev[i].e = "dmb_ishst" /\ last.ev[i].site = "split_block"
    /\ \E i \in DOMAIN last.ev :
          /\ last.ev[i].e = "store" /\ last.ev[i].site = "write_pte_and_sync"
          /\ entry_is_valid(last.ev[i].old) /\ pte_is_fault(last.ev[i].new)


(***************************************************************************)
(* Calls on the spin lock.  An action is one step of CPU c: a call up to   *)
(* its first access to the lock, or one instruction of the slow path.      *)
(***************************************************************************)
holds(c) == cpu[c].pc = "held"

\* A try_lock inside lock(), made by CPU c in state me: lock returns when it
\* succeeds, and goes (back) to SEVL when it fails.
lock_try(c, me) ==
    \E r \in {try_lock(spin)} :
        /\ spin' = r.l
        /\ cpu' = [cpu EXCEPT ![c] = [me EXCEPT !.pc = IF r.ok THEN "held" ELSE "sevl"]]
        /\ UNCHANGED <<mm_vars, boot_vars, rest_vars>>

\* A step that touches only CPU c.
local_step(c, me) ==
    /\ cpu' = [cpu EXCEPT ![c] = me]
    /\ UNCHANGED <<spin, mm_vars, boot_vars, rest_vars>>

\* lock(): the fast path.
Lock(c) ==
    /\ cpu[c].pc = "idle"
    /\ lock_try(c, cpu[c])

\* lock_irqsave(): irq_save().
LockIrqsave(c) ==
    /\ cpu[c].pc = "idle"
    /\ \E r \in {irq_save(cpu[c].daif)} :
           local_step(c, [cpu[c] EXCEPT !.pc = "lock", !.irq = TRUE, !.f = r.f,
                                        !.daif = r.daif, !.before = cpu[c].daif])

\* lock_irqsave(): the fast path of its lock().
LockEnter(c) ==
    /\ cpu[c].pc = "lock"
    /\ lock_try(c, cpu[c])

Sevl(c) ==
    /\ cpu[c].pc = "sevl"
    /\ local_step(c, [sevl(cpu[c]) EXCEPT !.pc = "load"])

\* The condition of the while loop.
LoadState(c) ==
    /\ cpu[c].pc = "load"
    /\ local_step(c, [cpu[c] EXCEPT !.pc = IF load_state(spin) # 0 THEN "wfe"
                                                                     ELSE "retry"])

Wfe(c) ==
    /\ cpu[c].pc = "wfe"
    /\ wfe_ready(cpu[c])
    /\ local_step(c, [wfe(cpu[c]) EXCEPT !.pc = "load"])

\* The try_lock after the while loop.
LockRetry(c) ==
    /\ cpu[c].pc = "retry"
    /\ lock_try(c, cpu[c])

\* try_lock() called on its own: the caller holds the lock when it returns
\* true and is where it was when it returns false.
TryLock(c) ==
    /\ cpu[c].pc = "idle"
    /\ \E r \in {try_lock(spin)} :
           /\ spin' = r.l
           /\ cpu' = [cpu EXCEPT ![c].pc = IF r.ok THEN "held" ELSE "idle"]
           /\ UNCHANGED <<mm_vars, boot_vars, rest_vars>>

\* The store of unlock(), by a holder.
unlock_store(c) ==
    /\ spin' = store_unlocked(spin)
    /\ cpu' = [cpu EXCEPT ![c].pc = "sev"]
    /\ UNCHANGED <<mm_vars, boot_vars, rest_vars>>

\* unlock() by the CPU that took the lock with lock() or try_lock().
Unlock(c) ==
    /\ holds(c) /\ ~cpu[c].irq
    /\ unlock_store(c)

\* unlock_irqrestore(f) by the CPU that took the lock with lock_irqsave(),
\* with the flags that call returned.
UnlockIrqrestore(c) ==
    /\ holds(c) /\ cpu[c].irq
    /\ unlock_store(c)

\* The SEV of unlock(); unlock() then returns.
Sev(c) ==
    /\ cpu[c].pc = "sev"
    /\ \E cs \in {sev(cpu, c)} :
           cpu' = [cs EXCEPT ![c].pc = IF cpu[c].irq THEN "restore" ELSE "idle"]
    /\ UNCHANGED <<spin, mm_vars, boot_vars, rest_vars>>

\* unlock_irqrestore(f): irq_restore(f).
IrqRestore(c) ==
    /\ cpu[c].pc = "restore"
    /\ local_step(c, [cpu[c] EXCEPT !.pc = "idle", !.irq = FALSE, !.f = {},
                                    !.before = {},
                                    !.daif = irq_restore(cpu[c].f)])

\* DAIF values a CPU may have when it calls.
DaifInputs == {{}, {"I"}, {"D", "A", "I", "F"}}

\* Idle CPUs whose event registers hold whatever earlier events left there.
InitLock ==
    /\ InitMM({PtPool}, {"ST_1"}, {TRUE})
    /\ spin = Unlocked
    /\ cpu \in [CPUs -> {IdleCpu(e, d) : e \in BOOLEAN, d \in DaifInputs}]
    /\ IdleBoot
    /\ IdleRest

\* A CPU decides to take the lock.
cpu_call(c) == Lock(c) \/ LockIrqsave(c) \/ TryLock(c)

\* A CPU goes on with what it has started; a holder releases the lock.
cpu_step(c) ==
    \/ LockEnter(c) \/ Sevl(c) \/ LoadState(c) \/ Wfe(c) \/ LockRetry(c)
    \/ Unlock(c) \/ UnlockIrqrestore(c) \/ Sev(c) \/ IrqRestore(c)

NextLock == \E c \in CPUs : cpu_call(c) \/ cpu_step(c)

SpecLock == InitLock /\ [][NextLock]_vars

\* CPUs that take the lock with lock() or lock_irqsave() only.
NextWait == \E c \in CPUs : Lock(c) \/ LockIrqsave(c) \/ cpu_step(c)

\* Fair scheduling: every CPU that can take a step eventually takes one, so
\* every holder eventually unlocks.
SpecLockFair ==
    InitLock /\ [][NextWait]_vars /\ \A c \in CPUs : WF_vars(cpu_step(c))

(***************************************************************************)
(* Properties of the spin lock.                                            *)
(***************************************************************************)
\* C11: at most one CPU holds the lock, and a CPU comes to hold it (lock
\* returns, try_lock returns true) only in a step that changes state from 0
\* to 1.
C11_MutualExclusion ==
    /\ [](Cardinality({c \in CPUs : holds(c)}) <= 1)
    /\ [][\A c \in CPUs :
             (~holds(c) /\ cpu'[c].pc = "held") => (spin.state = 0 /\ spin'.state = 1)]_vars

\* One CPU holds the lock while another, which saw it free, is about to try.
C11_Witness ==
    \E c, d \in CPUs : c # d /\ holds(c) /\ cpu[d].pc = "retry"

\* In the slow path of lock().
waiting(c) == cpu[c].pc \in {"sevl", "load", "wfe", "retry"}

\* In a WFE that does not return.
blocked(c) == cpu[c].pc = "wfe" /\ ~wfe_ready(cpu[c])

Builds ==
    {[page_shift |-> 12, va_bits |-> 39], [page_shift |-> 12, va_bits |-> 48],
     [page_shift |-> 14, va_bits |-> 47]}

\* What CurrentEL and the ID registers of a CPU may report.
Hardware == [el : {1, 2}, gran : BOOLEAN, vh : BOOLEAN, st : BOOLEAN, pa_range : PaRanges]

\* init_paging() on the next CPU, whose registers report hw.
InitPaging(hw) ==
    /\ Len(booted) < NCpu
    /\ \E r \in {init_paging(config, hw, cpu_state)} :
           /\ cpu_state' = r.st
           /\ booted' = Append(booted, [pa_range |-> hw.pa_range, done |-> r.done])
    /\ UNCHANGED <<config, use_mapping, mm_vars, sync_vars, rest_vars>>

InitBoot ==
    /\ InitMM({PtPool}, {"ST_1"}, {TRUE})
    /\ IdleSync
    /\ cpu_state = ZeroCpuState
    /\ config \in Builds
    /\ booted = <<>>
    /\ use_mapping = FALSE
    /\ IdleRest

NextBoot == \E hw \in Hardware : InitPaging(hw)

SpecBoot == InitBoot /\ [][NextBoot]_vars

(***************************************************************************)
(* Properties of the shared CPU state.                                     *)
(***************************************************************************)
\* PA widths of the CPUs that have run init_paging to its end.
ran == {parange_bits(booted[i].pa_range) : i \in {j \in DOMAIN booted : booted[j].done}}

\* C13: once a CPU has run init_paging, the shared pa_bits is the least
\* width of the CPUs that have run, ipa_bits is min(va_bits, pa_bits), TCR_EL2
\* and VTCR_EL2 are the values built from these two; and pa_bits, once set,
\* never increases.
C13_SharedStateIsIntersection ==
    /\ [](ran # {} =>
            /\ cpu_state.pa_bits \in ran
            /\ \A w \in ran : cpu_state.pa_bits <= w
            /\ cpu_state.ipa_bits = IF config.va_bits < cpu_state.pa_bits
                                    THEN config.va_bits ELSE cpu_state.pa_bits
            /\ cpu_state.tcr_el2
                   = make_tcr_el2(config, cpu_state.pa_bits, config.va_bits)
            /\ \E st \in BOOLEAN :
                   cpu_state.vtcr_el2
                       = make_vtcr_el2(config, [st |-> st], cpu_state.pa_bits,
                                       cpu_state.ipa_bits))
    /\ [][cpu_state.pa_bits # 0 => cpu_state'.pa_bits <= cpu_state.pa_bits]_vars

\* A later CPU with a narrower PA range has narrowed pa_bits and, with it,
\* ipa_bits below va_bits.
C13_Witness ==
    /\ Len(booted) >= 2 /\ booted[1].done /\ booted[2].done
    /\ parange_bits(booted[2].pa_range) < parange_bits(booted[1].pa_range)
    /\ parange_bits(booted[1].pa_range) > config.va_bits
    /\ cpu_state.ipa_bits < config.va_bits


(***************************************************************************)
(* The allocator from its zero-initialised storage on: init is a call like *)
(* the others, made with good and bad arguments, and made again.           *)
(***************************************************************************)
\* buddy::init(pa, size)
BuddyInit(pa, size) ==
    /\ \E r \in {init(pa, size)} :
           /\ boot_allocator' = r.b
           /\ last' = [mk_last("init") EXCEPT !.pa = pa, !.size = size, !.ret = r.ret]
    /\ pool' = [pa |-> pa, size |-> size]
    /\ outstanding' = {}
    /\ UNCHANGED <<mem, pt, stage, va_layout_enabled, sync_vars, boot_vars, rest_vars>>

\* free_pages with any arguments on an allocator that is not initialised.
FreePagesUninit(pa, order) ==
    /\ ~is_ok(boot_allocator)
    /\ free_call(pa, order)

\* Arguments of init: pools at address 0, at a page boundary, off a page
\* boundary and at the top of the address space; sizes from nothing to one
\* page more than buddy<Order> represents.
InitInputs ==
    [pa : {0, page_size, page_size + 1, AddrSpace - page_size, AddrSpace - 1},
     size : {0, page_size \div 2, page_size, (Pow2(Order) - 1) * page_size,
             Pow2(Order) * page_size, (Pow2(Order) + 1) * page_size}]

\* constinit buddy<Order>{}: zero-initialised storage.
InitZero ==
    /\ pool = [pa |-> 0, size |-> 0]
    /\ boot_allocator = UninitBuddy
    /\ mem = << >>
    /\ pt = [allocator |-> FALSE, root_pa |-> 0]
    /\ stage = "ST_1"
    /\ va_layout_enabled = FALSE
    /\ outstanding = {}
    /\ last = mk_last("boot")
    /\ IdleSync
    /\ IdleBoot
    /\ IdleRest

NextBuddyInit ==
    \/ \E x \in InitInputs : BuddyInit(x.pa, x.size)
    \/ \E order \in Orders : AllocPages(order)
    \/ \E x \in outstanding : FreePages(x)
    \/ \E pa \in {0, page_size}, order \in Orders : FreePagesUninit(pa, order)

\* Disciplined clients of an allocator they initialise themselves.
SpecBuddyInit == InitZero /\ [][NextBuddyInit]_vars


(***************************************************************************)
(* Properties of alloc_pages and init.                                     *)
(***************************************************************************)
\* Nodes of order o whose free bit is set.
free_nodes(b, o) ==
    {n \in b.free_bits : Pow2(Order - o) <= n /\ n < Pow2(Order - o + 1)}

\* C14: on an initialised allocator alloc_pages(order), order <= max_ord,
\* returns 0 exactly when no node of an order from order to max_ord is free;
\* otherwise it takes a free node n of the least such order o, marks n and
\* its left-most descendants above the block split, leaves the right buddy
\* free at each order below o down to order, and returns the address of the
\* left-most block of that order under n.
C14_AllocContract ==
    [][(/\ last'.op = "alloc_pages"
        /\ is_ok(boot_allocator)
        /\ last'.order <= boot_allocator.max_ord)
       => LET b     == boot_allocator
              order == last'.order
              os    == {o \in order .. b.max_ord : free_nodes(b, o) # {}}
          IN  /\ (last'.pa = 0) <=> (os = {})
              /\ os # {} =>
                   \E o \in os :
                       /\ \A q \in os : o <= q
                       /\ \E n \in free_nodes(b, o) :
                              /\ boot_allocator'.free_bits
                                     = (b.free_bits \ {n})
                                           \cup {n * Pow2(k) + 1 : k \in 1 .. (o - order)}
                              /\ boot_allocator'.split_bits
                                     = b.split_bits
                                           \cup {n * Pow2(k) : k \in 0 .. (o - order - 1)}
                              /\ last'.pa
                                     = b.base_pa
                                         + (n * Pow2(o - order) - Pow2(Order - order))
                                               * Pow2(order) * page_size]_vars

\* C15: an address alloc_pages(order) returns, when it is not 0, is a
\* multiple of the size of a block of that order.
C15_AllocAligned ==
    (last.op = "alloc_pages" /\ last.pa # 0)
        => last.pa % (Pow2(last.order) * page_size) = 0

\* C16: on a pool of exactly 2^Order pages, alloc_pages(Order) called right
\* after init returns an address that is not 0, and while that block is
\* held every alloc_pages call returns 0.
C16_FullPoolOnce ==
    [][(last'.op = "alloc_pages" /\ boot_allocator.pool_pages = Pow2(Order))
       => /\ (last.op = "init" /\ last'.order = Order) => last'.pa # 0
          /\ (\E x \in outstanding : x[2] = Order) => last'.pa = 0]_vars

\* C17: init(pa, size) returns ok, and leaves an initialised allocator,
\* exactly when pa + size does not wrap and the whole pages between pa and
\* pa + size are at least one and at most 2^Order; otherwise it returns
\* overflow or invalid and leaves the allocator as its storage was, and on
\* such an allocator alloc_pages returns 0 and neither call changes it.
C17_InitValidates ==
    /\ [][last'.op = "init"
          => LET sum  == last'.pa + last'.size
                 base == ((last'.pa + page_size - 1) \div page_size) * page_size
                 end  == (sum \div page_size) * page_size
                 good == /\ sum < AddrSpace
                         /\ base < end
                         /\ (end - base) \div page_size <= Pow2(Order)
             IN  /\ (last'.ret = "ok") <=> good
                 /\ good => is_ok(boot_allocator')
                 /\ ~good => /\ last'.ret \in {"overflow", "invalid"}
                             /\ boot_allocator' = UninitBuddy]_vars
    /\ [][(last'.op \in {"alloc_pages", "free_pages"} /\ ~is_ok(boot_allocator))
          => /\ boot_allocator' = boot_allocator
             /\ last'.op = "alloc_pages" => last'.pa = 0]_vars

\* free_pages was called after an init whose arguments wrap.
C17_Witness ==
    /\ last.op = "free_pages"
    /\ ~is_ok(boot_allocator)
    /\ pool.pa + pool.size >= AddrSpace


(***************************************************************************)
(* map_range called with arguments of every kind: empty ranges, addresses  *)
(* off a page boundary, ranges that run over the end of the address space. *)
(***************************************************************************)
ArgInputs ==
    [a : {[addr |-> x, asid |-> win_addr(0).asid] : x \in {0, 1, AddrSpace - page_size}},
     pa : {pa_base, pa_base + 1, AddrSpace - page_size},
     size : {0, 1, page_size, 2 * page_size}]

NextPTArgs ==
    \/ PtInit
    \/ PtDeinit
    \/ \E x \in ArgInputs, p \in Prots : MapRange(x.a, x.pa, x.size, p)
    \/ \E r \in Ranges : UnmapRange(r.a, r.size)

SpecPTArgs == InitPT({TRUE}) /\ [][NextPTArgs]_vars

\* C18: map_range checks its arguments in this order, and a call that
\* fails a check (or has nothing to map) writes no descriptor, allocates no
\* page and issues nothing: size 0 returns ok; otherwise an a.addr or pa off
\* a page boundary returns invalid; otherwise a.addr + size or pa + size
\* that wraps returns overflow.
C18_MapRangeValidates ==
    [][last'.op = "map_range"
       => LET a       == last'.a.addr
              pa      == last'.pa
              size    == last'.size
              empty   == size = 0
              crooked == a % page_size # 0 \/ pa % page_size # 0
              wraps   == a + size >= AddrSpace \/ pa + size >= AddrSpace
          IN  /\ empty => last'.ret = "ok"
              /\ (~empty /\ crooked) => last'.ret = "invalid"
              /\ (~empty /\ ~crooked /\ wraps) => last'.ret = "overflow"
              /\ (empty \/ crooked \/ wraps)
                     => /\ last'.ev = << >>
                        /\ mem' = mem
                        /\ boot_allocator' = boot_allocator
                        /\ pt' = pt]_vars

\* A range that wraps was refused on a page table that maps something.
C18_Witness ==
    /\ last.op = "map_range" /\ last.ret = "overflow"
    /\ translate(mem, stage, pt.root_pa, 0).valid


\* C19: init on a page table that already has its root fails with invalid,
\* calls the allocator for nothing, and leaves the root, the allocator and
\* every descriptor in memory (so every existing mapping) as they were.
C19_InitTwiceRefused ==
    [][(last'.op = "init" /\ pt.root_pa # 0)
       => /\ last'.ret = "invalid"
          /\ last'.ev = << >>
          /\ boot_allocator' = boot_allocator
          /\ outstanding' = outstanding
          /\ pt' = pt
          /\ mem' = mem]_vars

\* init was refused on a page table that maps something.
C19_Witness ==
    /\ last.op = "init" /\ last.ret = "invalid"
    /\ pt.root_pa # 0
    /\ translate(mem, stage, pt.root_pa, 0).valid


\* C20: lock_irqsave masks IRQ and FIQ before its first attempt on the lock
\* and hands back DAIF as it was read before the masking; from there until
\* unlock_irqrestore has stored 0 and sent its event, the CPU keeps both
\* masked and keeps that value; only then is DAIF written, with exactly the
\* value saved, so that DAIF after the pair is DAIF before it.
C20_IrqsavePair ==
    /\ [](\A c \in CPUs :
            (cpu[c].irq /\ cpu[c].pc # "idle")
                => /\ cpu[c].f = cpu[c].before
                   /\ {"I", "F"} \subseteq cpu[c].daif
                   /\ cpu[c].daif = cpu[c].before \cup {"I", "F"})
    /\ [][\A c \in CPUs :
            /\ (cpu[c].irq /\ cpu'[c].daif # cpu[c].daif)
                   => /\ cpu[c].pc = "restore" /\ cpu'[c].pc = "idle"
                      /\ ~holds(c)
                      /\ cpu'[c].daif = cpu[c].before
            /\ (cpu[c].pc = "restore" /\ cpu'[c].pc = "idle")
                   => cpu'[c].daif = cpu[c].before
            /\ (~cpu[c].irq /\ cpu'[c].irq)
                   => /\ cpu'[c].pc = "lock"
                      /\ cpu'[c].before = cpu[c].daif
                      /\ spin' = spin]_vars

\* A CPU that ran with FIQ unmasked holds the lock with IRQ and FIQ masked.
C20_Witness ==
    \E c \in CPUs :
        /\ holds(c) /\ cpu[c].irq
        /\ cpu[c].before = {"I"}
        /\ cpu[c].daif = {"I", "F"}


(***************************************************************************)
(* The per-CPU boot flow: percpu_bootstrap_init on the boot CPU (index 0), *)
(* percpu_init(ncpu) there once CPUs are counted, percpu_cpu_online(i) on  *)
(* every other CPU i as it comes up; in between, CPUs whose base is        *)
(* installed store to and load from their per-CPU variables.               *)
(***************************************************************************)
PercpuBootstrapInit ==
    /\ pcpu.phase = "reset"
    /\ tpidr_el2' = [tpidr_el2 EXCEPT ![0] = linker.percpu_aligned_start]
    /\ pcpu' = [pcpu EXCEPT !.phase = "bootstrap", !.installed = {0}]
    /\ UNCHANGED <<linker, percpu, dram, mm_vars, sync_vars, boot_vars, gzip_vars, efi_vars, lib_vars>>

PercpuInit(ncpu) ==
    /\ pcpu.phase = "bootstrap"
    /\ \E block \in aligned_alloc(UKERNEL_CACHE_LINE, Wrap(percpu_size(linker) * ncpu)) :
       \E r \in {percpu_init(linker, percpu, dram, tpidr_el2[0], ncpu, block)} :
           /\ percpu' = r.st
           /\ dram' = r.ram
           /\ tpidr_el2' = [tpidr_el2 EXCEPT ![0] = r.tpidr]
           /\ pcpu' = [pcpu EXCEPT !.phase = "smp", !.ret = r.ret, !.ncpu = ncpu]
    /\ UNCHANGED <<linker, mm_vars, sync_vars, boot_vars, gzip_vars, efi_vars, lib_vars>>

\* percpu_cpu_online(cpu_idx), called on CPU cpu_idx.
PercpuCpuOnline(cpu_idx) ==
    /\ pcpu.phase = "smp" /\ pcpu.ret = "ok"
    /\ cpu_idx # 0 /\ cpu_idx < pcpu.ncpu
    /\ cpu_idx \notin pcpu.installed
    /\ tpidr_el2' = [tpidr_el2 EXCEPT ![cpu_idx] = cpu_base(percpu, cpu_idx)]
    /\ pcpu' = [pcpu EXCEPT !.installed = @ \cup {cpu_idx}]
    /\ UNCHANGED <<linker, percpu, dram, mm_vars, sync_vars, boot_vars, gzip_vars, efi_vars, lib_vars>>

\* this_cpu(sym) = v on CPU c; v names the CPU and the phase that stored it.
ThisCpuStore(c, sym) ==
    /\ c \in pcpu.installed
    /\ dram' = store_byte(dram, this_cpu_addr(linker, tpidr_el2[c], sym),
                         [cpu |-> c, phase |-> pcpu.phase])
    /\ UNCHANGED <<linker, percpu, tpidr_el2, pcpu, mm_vars, sync_vars, boot_vars, gzip_vars, efi_vars, lib_vars>>

\* A read of this_cpu(sym) on CPU c.
ThisCpuLoad(c, sym) ==
    /\ c \in pcpu.installed
    /\ LET a == this_cpu_addr(linker, tpidr_el2[c], sym)
       IN  pcpu' = [pcpu EXCEPT !.seen = [cpu |-> c, sym |-> sym, addr |-> a,
                                          val |-> load_byte(dram, a)]]
    /\ UNCHANGED <<linker, percpu, tpidr_el2, dram, mm_vars, sync_vars, boot_vars, gzip_vars, efi_vars, lib_vars>>

InitPercpu ==
    /\ InitMM({PtPool}, {"ST_1"}, {TRUE}) /\ IdleSync /\ IdleBoot /\ IdleGzip /\ IdleEfi /\ IdleLib
    /\ linker \in Templates
    /\ percpu = [base |-> 0, unit |-> 0, nr_cpus |-> 0]
    /\ tpidr_el2 \in [CpuIdx -> {0, HeapStart}]
    /\ dram = << >>
    /\ pcpu = [phase |-> "reset", ret |-> "none", ncpu |-> 0, installed |-> {},
               seen |-> [cpu |-> -1, sym |-> 0, addr |-> 0, val |-> Loaded]]

NextPercpu ==
    \/ PercpuBootstrapInit
    \/ \E ncpu \in 0 .. NCpu : PercpuInit(ncpu)
    \/ \E i \in CpuIdx : PercpuCpuOnline(i)
    \/ \E c \in CpuIdx, sym \in Syms(linker) : ThisCpuStore(c, sym)
    \/ \E c \in CpuIdx, sym \in Syms(linker) : ThisCpuLoad(c, sym)

SpecPercpu == InitPercpu /\ [][NextPercpu]_vars

\* Replica i of the area percpu_init allocated.
replica(i) == {a \in 0 .. (AddrSpace - 1) :
                  /\ percpu.base + i * percpu.unit <= a
                  /\ a < percpu.base + (i + 1) * percpu.unit}

\* C21: once percpu_init(ncpu) has returned ok, on every CPU i < ncpu whose
\* base is installed this_cpu(sym) is base + i * unit + (sym - template
\* start), an address of replica i, and the replicas of two CPUs below ncpu
\* share no address.
C21_ThisCpuInOwnReplica ==
    (pcpu.phase = "smp" /\ pcpu.ret = "ok")
        => /\ \A i \in pcpu.installed, sym \in Syms(linker) :
                 LET a == this_cpu_addr(linker, tpidr_el2[i], sym)
                 IN  /\ i < pcpu.ncpu
                     /\ a = percpu.base + i * percpu.unit
                              + (sym - linker.percpu_aligned_start)
                     /\ a \in replica(i)
           /\ \A i, j \in 0 .. (pcpu.ncpu - 1) :
                 (i # j /\ Syms(linker) # {}) => replica(i) \cap replica(j) = {}

\* Two CPUs have their bases installed on an image with per-CPU variables.
C21_Witness ==
    /\ pcpu.phase = "smp" /\ pcpu.ret = "ok"
    /\ Syms(linker) # {}
    /\ Cardinality(pcpu.installed) >= 2


\* C22: what a CPU reads through this_cpu(sym) was stored through
\* this_cpu(sym) by that CPU, or is what the image was loaded with: never
\* a value another CPU stored, whatever the phase of the store.
C22_PercpuIsLocal ==
    pcpu.seen.cpu \in CpuIdx => pcpu.seen.val.cpu \in {Loaded.cpu, pcpu.seen.cpu}

\* The same for the values stored after percpu_init.
C22_LocalAfterInit ==
    (pcpu.seen.cpu \in CpuIdx /\ pcpu.seen.val.phase # "bootstrap")
        => pcpu.seen.val.cpu \in {Loaded.cpu, pcpu.seen.cpu}


(***************************************************************************)
(* The GZIP decoder of the UEFI stub (gzip_decompress.c).  A buffer is a   *)
(* sequence of bytes; a pointer into it is the count of bytes before it.   *)
(* Integers have their C widths.                                           *)
(***************************************************************************)
MAX_BITS == 16
MAX_SYMBOLS == 288
MAX_DISTANCE == 32

ERR_NONE == 0
ERR_OVERFLOW == 1
ERR_SYMBOL == 2
ERR_UNDEFINED == 3

\* The byte at pointer p of buffer src.
byte_at(src, p) == src[p + 1]

get_unaligned_u16(src, p) == byte_at(src, p) + 256 * byte_at(src, p + 1)

\* A uint32_t is held as <<high half, low half>>, each of 16 bits.
to_u32(n) == <<(n \div 65536) % 65536, n % 65536>>

get_unaligned_u32(src, p) == <<get_unaligned_u16(src, p + 2), get_unaligned_u16(src, p)>>

\* a ^ b on unsigned values of w bits.
RECURSIVE bit_xor(_, _, _)
bit_xor(a, b, w) ==
    IF w = 0 THEN 0
    ELSE ((a + b) % 2) + 2 * bit_xor(a \div 2, b \div 2, w - 1)

xor32(a, b) == <<bit_xor(a[1], b[1], 16), bit_xor(a[2], b[2], 16)>>

\* a >> n on a uint32_t, 0 < n < 16.
shr32(a, n) == <<a[1] \div Pow2(n), (a[2] \div Pow2(n)) + (a[1] % Pow2(n)) * Pow2(16 - n)>>

crctab32 ==
    <<<<0, 0>>, <<7607, 4196>>, <<15214, 8392>>, <<9945, 12460>>,
      <<30428, 16784>>, <<27499, 20980>>, <<19890, 24920>>, <<20485, 28988>>,
      <<60856, 33568>>, <<61455, 37700>>, <<54998, 41960>>, <<52065, 45964>>,
      <<39780, 49840>>, <<34515, 53972>>, <<40970, 57976>>, <<48573, 61980>>>>

\* One byte of update_crc32: two steps of four bits.
crc_byte(crc, b) ==
    CHOOSE out \in
        {xor32(crctab32[(c1[2] % 16) + 1], shr32(c1, 4))
         : c1 \in {xor32(crctab32[(c0[2] % 16) + 1], shr32(c0, 4))
                   : c0 \in {xor32(crc, <<0, b>>)}}} : TRUE

RECURSIVE crc_fold(_, _, _, _)
crc_fold(crc, buf, n, size) ==
    IF n >= size THEN crc
    ELSE CHOOSE out \in {crc_fold(c, buf, n + 1, size)
                         : c \in {crc_byte(crc, byte_at(buf, n))}} : TRUE

\* update_crc32(buffer, size).
update_crc32(buf, size) ==
    IF size = 0 THEN <<0, 0>>
    ELSE xor32(crc_fold(<<65535, 65535>>, buf, 0, size), <<65535, 65535>>)

\* The bit reader.  Every reader returns [d, v]: the state left, the value.
\* At most 7 bits are left between reads and one read asks for 16 bits at
\* most, so bit_accum stays below 2^23 and never loses a bit.
RECURSIVE fill_accum(_, _, _)
fill_accum(src, d, nr_bits) ==
    IF d.nr_bits >= nr_bits THEN d
    ELSE IF d.in_ptr = d.in_end THEN [d EXCEPT !.error = ERR_OVERFLOW]
    ELSE CHOOSE out \in
             {fill_accum(src, f, nr_bits)
              : f \in {[d EXCEPT !.bit_accum = @ + byte_at(src, d.in_ptr) * Pow2(d.nr_bits),
                                 !.in_ptr = @ + 1,
                                 !.nr_bits = @ + 8]}} : TRUE

get_bits(src, d, nr_bits) ==
    IF d.error # ERR_NONE THEN [d |-> d, v |-> 0]
    ELSE CHOOSE out \in
             {(IF f.error # ERR_NONE THEN [d |-> f, v |-> 0]
               ELSE [d |-> [f EXCEPT !.bit_accum = @ \div Pow2(nr_bits),
                                     !.nr_bits = @ - nr_bits],
                     v |-> f.bit_accum % Pow2(nr_bits)])
              : f \in {fill_accum(src, d, nr_bits)}} : TRUE

get_extra_bits(src, d, nr_bits, base) ==
    IF nr_bits = 0 THEN [d |-> d, v |-> base]
    ELSE CHOOSE out \in
             {[d |-> r.d, v |-> base + r.v] : r \in {get_bits(src, d, nr_bits)}} : TRUE

\* struct tree: bl_count[0 .. MAX_BITS - 1], and the symbols that have a
\* code, sorted by code length and then by symbol.
RECURSIVE count_below(_, _)
count_below(bl_count, len) ==
    IF len <= 1 THEN 0 ELSE bl_count[len - 1] + count_below(bl_count, len - 1)

\* huffman_tree(tree, lengths, nr_sym) for lengths[first .. first + nr_sym).
huffman_tree(lengths, first, nr_sym) ==
    LET len(sy)  == lengths[first + sy]
        syms     == 0 .. (nr_sym - 1)
        bl_count == [l \in 0 .. (MAX_BITS - 1) |->
                        IF l = 0 THEN 0 ELSE Cardinality({sy \in syms : len(sy) = l})]
        coded    == {sy \in syms : len(sy) # 0}
        slot(sy) == count_below(bl_count, len(sy))
                        + Cardinality({t \in coded : len(t) = len(sy) /\ t < sy})
    IN  [bl_count |-> bl_count,
         sorted_symbols |-> [k \in 0 .. (Cardinality(coded) - 1) |->
                                CHOOSE sy \in coded : slot(sy) = k]]

\* huffman_fixed_tree: the two fixed trees.
fixed_ll ==
    [bl_count |-> [l \in 0 .. (MAX_BITS - 1) |->
                      IF l = 7 THEN 24 ELSE IF l = 8 THEN 152 ELSE IF l = 9 THEN 112 ELSE 0],
     sorted_symbols |-> [k \in 0 .. (MAX_SYMBOLS - 1) |->
                            IF k < 24 THEN 256 + k
                            ELSE IF k < 24 + 144 THEN k - 24
                            ELSE IF k < 24 + 144 + 8 THEN 280 + (k - (24 + 144))
                            ELSE 144 + (k - (24 + 144 + 8))]]

fixed_distance ==
    [bl_count |-> [l \in 0 .. (MAX_BITS - 1) |-> IF l = 5 THEN 32 ELSE 0],
     sorted_symbols |-> [k \in 0 .. (MAX_DISTANCE - 1) |-> k]]

\* decode_symbol(d, tree): the loop from code length i, with offs and sum.
RECURSIVE decode_from(_, _, _, _, _, _)
decode_from(src, d, tree, i, offs, sum) ==
    IF i >= MAX_BITS THEN [d |-> [d EXCEPT !.error = ERR_SYMBOL], v |-> 0]
    ELSE CHOOSE out \in
             {(LET o == (2 * offs + r.v) % 65536
               IN  IF r.d.error # ERR_NONE THEN [d |-> r.d, v |-> 0]
                   ELSE IF o < tree.bl_count[i]
                        THEN [d |-> r.d, v |-> tree.sorted_symbols[sum + o]]
                   ELSE decode_from(src, r.d, tree, i + 1, o - tree.bl_count[i],
                                    (sum + tree.bl_count[i]) % 65536))
              : r \in {get_bits(src, d, 1)}} : TRUE

decode_symbol(src, d, tree) == decode_from(src, d, tree, 1, 0, 0)


code_len_for_code_idx == <<16, 17, 18, 0, 8, 7, 9, 6, 10, 5, 11, 4, 12, 3, 13, 2, 14, 1, 15>>

\* lengths[from .. from + runlen) = sym, as far as the array goes.
run_of(lengths, from, runlen, sym) ==
    [k \in DOMAIN lengths |-> IF from <= k /\ k < from + runlen THEN sym ELSE lengths[k]]

\* The HCLEN loop of huffman_dynamic_tree.  Returns [d, lengths].
RECURSIVE code_lengths(_, _, _, _, _)
code_lengths(src, d, lengths, i, hclen) ==
    IF i >= hclen THEN [d |-> d, lengths |-> lengths]
    ELSE CHOOSE out \in
             {(IF r.d.error # ERR_NONE THEN [d |-> r.d, lengths |-> lengths]
               ELSE code_lengths(src, r.d,
                                 [lengths EXCEPT ![code_len_for_code_idx[i + 1]] = r.v],
                                 i + 1, hclen))
              : r \in {get_bits(src, d, 3)}} : TRUE

\* The run-length loop of huffman_dynamic_tree.  Returns [d, lengths, smashed]:
\* smashed when a run went past the end of lengths[].
RECURSIVE symbol_lengths(_, _, _, _, _, _)
symbol_lengths(src, d, lt, lengths, i, total) ==
    IF i >= total THEN [d |-> d, lengths |-> lengths, smashed |-> FALSE]
    ELSE CHOOSE out \in
        {(IF s.d.error # ERR_NONE
          THEN [d |-> s.d, lengths |-> lengths, smashed |-> FALSE]
          ELSE IF s.v = 16 /\ i = 0
               THEN [d |-> [s.d EXCEPT !.error = ERR_SYMBOL], lengths |-> lengths,
                     smashed |-> FALSE]
          ELSE CHOOSE out2 \in
                   {(IF r.d.error # ERR_NONE
                     THEN [d |-> r.d, lengths |-> lengths, smashed |-> FALSE]
                     ELSE IF i + r.v > MAX_SYMBOLS + MAX_DISTANCE
                          THEN [d |-> r.d, lengths |-> lengths, smashed |-> TRUE]
                     ELSE symbol_lengths(src, r.d, lt,
                                         run_of(lengths, i, r.v,
                                                IF s.v = 16 THEN lengths[i - 1]
                                                ELSE IF s.v \in {17, 18} THEN 0
                                                ELSE s.v),
                                         i + r.v, total))
                    : r \in {IF s.v = 16 THEN get_extra_bits(src, s.d, 2, 3)
                             ELSE IF s.v = 17 THEN get_extra_bits(src, s.d, 3, 3)
                             ELSE IF s.v = 18 THEN get_extra_bits(src, s.d, 7, 11)
                             ELSE [d |-> s.d, v |-> 1]}} : TRUE)
         : s \in {decode_symbol(src, d, lt)}} : TRUE

\* huffman_dynamic_tree(d, lt, dt).  Returns [d, ll, distance, smashed]; the
\* trees are those of d when an error ends the function early.
huffman_dynamic_tree(src, d) ==
    LET zero == [k \in 0 .. (MAX_SYMBOLS + MAX_DISTANCE - 1) |-> 0]
        keep(dd, lt) == [d |-> dd, ll |-> lt, distance |-> d.distance, smashed |-> FALSE]
    IN  CHOOSE out \in
        {(IF h3.d.error # ERR_NONE THEN keep(h3.d, d.ll)
          ELSE CHOOSE out2 \in
              {(IF c.d.error # ERR_NONE THEN keep(c.d, d.ll)
                ELSE CHOOSE out3 \in
                    {(CHOOSE out4 \in
                        {(IF y.d.error # ERR_NONE THEN keep(y.d, lt)
                          ELSE IF y.smashed
                               THEN [d |-> y.d, ll |-> lt, distance |-> d.distance,
                                     smashed |-> TRUE]
                          ELSE [d |-> y.d,
                                ll |-> huffman_tree(y.lengths, 0, h1.v),
                                distance |-> huffman_tree(y.lengths, h1.v, h2.v),
                                smashed |-> FALSE])
                         : y \in {symbol_lengths(src, c.d, lt, c.lengths, 0,
                                                 h1.v + h2.v)}} : TRUE)
                     : lt \in {huffman_tree(c.lengths, 0, 19)}} : TRUE)
               : c \in {code_lengths(src, h3.d, zero, 0, h3.v)}} : TRUE)
         : h1 \in {get_extra_bits(src, d, 5, 257)},
           h2 \in {get_extra_bits(src, get_extra_bits(src, d, 5, 257).d, 5, 1)},
           h3 \in {get_extra_bits(src,
                       get_extra_bits(src, get_extra_bits(src, d, 5, 257).d, 5, 1).d,
                       4, 4)}} : TRUE

length_bits ==
    <<0, 0, 0, 0, 0, 0, 0, 0, 1, 1, 1, 1, 2, 2, 2,
      2, 3, 3, 3, 3, 4, 4, 4, 4, 5, 5, 5, 5, 0, 127>>

length_base ==
    <<3, 4, 5, 6, 7, 8, 9, 10, 11, 13, 15, 17, 19, 23, 27,
      31, 35, 43, 51, 59, 67, 83, 99, 115, 131, 163, 195, 227, 258, 0>>

dist_bits ==
    <<0, 0, 0, 0, 1, 1, 2, 2, 3, 3, 4, 4, 5, 5, 6,
      6, 7, 7, 8, 8, 9, 9, 10, 10, 11, 11, 12, 12, 13, 13>>

dist_base ==
    <<1, 2, 3, 4, 5, 7, 9, 13, 17, 25,
      33, 49, 65, 97, 129, 193, 257, 385, 513, 769,
      1025, 1537, 2049, 3073, 4097, 6145, 8193, 12289, 16385, 24577>>

\* What a read past the end of dist_bits[] and dist_base[] (distance symbols
\* 30 and 31) may find there, and what a copy from before dest may find.
BeyondTables == {[bits |-> 0, base |-> 1], [bits |-> 13, base |-> 24577]}
BeforeDest == {0, 255}

\* for (i = 0; i < len; i++) d->dest[i] = d->dest[i - offset]: out with len
\* bytes more, each the byte offset places before it; before is the byte
\* found below the start of dest.
copy_back(out, len, offset, before) ==
    LET cur == Len(out)
        from(j) == IF offset = 0 THEN j
                   ELSE (cur - offset) + ((j - cur) % offset)
    IN  [k \in 1 .. (cur + len) |->
            IF k <= cur THEN out[k]
            ELSE IF from(k - 1) < 0 \/ from(k - 1) >= cur THEN before
            ELSE out[from(k - 1) + 1]]

\* One turn of the while (1) of deflate_block; dest0 is d->dest when the
\* block began.  Returns [d, out, done]: done when deflate_block returns.
deflate_block(src, d, out, dest0, beyond, before) ==
    LET ret(dd) == [d |-> dd, out |-> out, done |-> TRUE]
        fail(dd) == ret([dd EXCEPT !.error = ERR_SYMBOL])
    IN  CHOOSE o1 \in
        {(IF s.d.error # ERR_NONE THEN ret(s.d)
          ELSE IF s.v = 256
               THEN ret([s.d EXCEPT !.dest_size = @ + (Len(out) - dest0)])
          ELSE IF s.v < 256
               THEN [d |-> s.d, out |-> Append(out, s.v % 256), done |-> FALSE]
          ELSE IF s.v > 285 THEN fail(s.d)
          ELSE CHOOSE o2 \in
              {(IF l.d.error # ERR_NONE THEN ret(l.d)
                ELSE CHOOSE o3 \in
                    {(IF ds.d.error # ERR_NONE THEN ret(ds.d)
                      ELSE IF ds.v >= MAX_DISTANCE THEN fail(ds.d)
                      ELSE CHOOSE o4 \in
                          {(IF f.d.error # ERR_NONE THEN ret(f.d)
                            ELSE [d |-> f.d, out |-> copy_back(out, l.v, f.v, before),
                                  done |-> FALSE])
                           : f \in {IF ds.v < 30
                                    THEN get_extra_bits(src, ds.d, dist_bits[ds.v + 1],
                                                        dist_base[ds.v + 1])
                                    ELSE get_extra_bits(src, ds.d, beyond.bits,
                                                        beyond.base)}} : TRUE)
                     : ds \in {decode_symbol(src, l.d, d.distance)}} : TRUE)
               : l \in {get_extra_bits(src, s.d, length_bits[s.v - 257 + 1],
                                       length_base[s.v - 257 + 1])}} : TRUE)
         : s \in {decode_symbol(src, d, d.ll)}} : TRUE

\* deflate_uncompressed_block(d).  Returns [d, out].
deflate_uncompressed_block(src, d, out) ==
    IF d.in_end - d.in_ptr < 4
    THEN [d |-> [d EXCEPT !.error = ERR_OVERFLOW], out |-> out]
    ELSE LET length == get_unaligned_u16(src, d.in_ptr)
             data   == d.in_ptr + 4
         IN  IF d.in_end - data < length
             THEN [d |-> [d EXCEPT !.in_ptr = data, !.error = ERR_OVERFLOW], out |-> out]
             ELSE [d   |-> [d EXCEPT !.in_ptr = data + length,
                                     !.dest_size = @ + length,
                                     !.bit_accum = 0,
                                     !.nr_bits = 0],
                   out |-> out \o [k \in 1 .. length |-> byte_at(src, data + k - 1)]]


EINVAL == 22
EIO == 5

\* The header checks of decompress_gzip.  Returns [ok, start]: start points
\* at the DEFLATE stream when ok.
RECURSIVE skip_string(_, _)
skip_string(src, start) ==
    IF start = Len(src) THEN [ok |-> FALSE, start |-> start]
    ELSE IF byte_at(src, start) = 0 THEN [ok |-> TRUE, start |-> start + 1]
    ELSE skip_string(src, start + 1)

gzip_header(src) ==
    LET end   == Len(src)
        bad   == [ok |-> FALSE, start |-> 0]
        flag  == byte_at(src, 3)
        has(f) == (flag \div f) % 2 = 1
        extra == IF has(4) THEN 10 + get_unaligned_u16(src, 10) + 2 ELSE 10
        name  == IF has(8) THEN skip_string(src, extra) ELSE [ok |-> TRUE, start |-> extra]
        comm  == IF has(16) THEN skip_string(src, name.start) ELSE name
        hcrc  == comm.start
    IN  IF end < 18 THEN bad
        ELSE IF byte_at(src, 0) # 31 \/ byte_at(src, 1) # 139 \/ byte_at(src, 2) # 8
                \/ flag \div 32 # 0
             THEN bad
        ELSE IF extra > end THEN bad
        ELSE IF ~name.ok THEN bad
        ELSE IF ~comm.ok THEN bad
        ELSE IF has(2) /\ hcrc + 2 > end THEN bad
        ELSE IF has(2) /\ update_crc32(src, hcrc)[2] # get_unaligned_u16(src, hcrc)
             THEN bad
        ELSE IF (IF has(2) THEN hcrc + 2 ELSE hcrc) + 8 > end THEN bad
        ELSE [ok |-> TRUE, start |-> IF has(2) THEN hcrc + 2 ELSE hcrc]

\* The do ... while test of deflate_buffer that forgets the error.
loop_test_final_only(d, block_final) == IF block_final = 0 THEN "block" ELSE "deflate_end"

\* The do ... while test of deflate_buffer: where the decoder goes next.
loop_test(d, block_final) ==
    IF block_final = 0 /\ d.error = ERR_NONE THEN "block" ELSE "deflate_end"

\* The checks of decompress_gzip after deflate_buffer without the CRC.
gzip_trailer_no_crc(src, inner, dest_len, out) ==
    IF inner # 0 THEN -EIO
    ELSE IF to_u32(dest_len) # get_unaligned_u32(src, Len(src) - 4) THEN -EIO
    ELSE 0

\* The checks of decompress_gzip after deflate_buffer has returned inner.
gzip_trailer(src, inner, dest_len, out) ==
    IF inner # 0 THEN -EIO
    ELSE IF to_u32(dest_len) # get_unaligned_u32(src, Len(src) - 4) THEN -EIO
    ELSE IF update_crc32(out, dest_len) # get_unaligned_u32(src, Len(src) - 8) THEN -EIO
    ELSE 0

\* decompress_gzip up to the first block of deflate_buffer.
DecompressGzip ==
    /\ gz.pc = "call"
    /\ \E h \in {gzip_header(gz.src)} :
           gz' = IF ~h.ok THEN [gz EXCEPT !.pc = "done", !.ret = -EINVAL]
                 ELSE [gz EXCEPT !.pc = "block",
                                 !.d = [NoDeflate EXCEPT !.in_ptr = h.start,
                                                         !.in_end = Len(gz.src) - 8],
                                 !.out = << >>]
    /\ UNCHANGED <<mm_vars, sync_vars, boot_vars, percpu_vars, efi_vars, lib_vars>>

\* One turn of the do loop of deflate_buffer, up to the first symbol of a
\* compressed block.
DeflateNextBlock ==
    /\ gz.pc = "block"
    /\ \E f \in {get_bits(gz.src, gz.d, 1)} :
       \E t \in {get_bits(gz.src, f.d, 2)} :
           IF t.d.error # ERR_NONE
           THEN gz' = [gz EXCEPT !.pc = "deflate_end", !.d = t.d, !.block_final = f.v]
           ELSE IF t.v = 0
           THEN \E u \in {deflate_uncompressed_block(gz.src, t.d, gz.out)} :
                    gz' = [gz EXCEPT !.pc = loop_test(u.d, f.v), !.d = u.d, !.out = u.out,
                                     !.block_final = f.v]
           ELSE IF t.v = 1
           THEN gz' = [gz EXCEPT !.pc = "symbol",
                                 !.d = [t.d EXCEPT !.ll = fixed_ll,
                                                   !.distance = fixed_distance],
                                 !.dest0 = Len(gz.out), !.block_final = f.v]
           ELSE IF t.v = 2
           THEN \E y \in {huffman_dynamic_tree(gz.src, t.d)} :
                    gz' = [gz EXCEPT !.pc = IF y.smashed THEN "undefined"
                                            ELSE IF y.d.error = ERR_NONE THEN "symbol"
                                            ELSE loop_test(y.d, f.v),
                                     !.d = [y.d EXCEPT !.ll = y.ll,
                                                       !.distance = y.distance],
                                     !.dest0 = Len(gz.out), !.block_final = f.v]
           ELSE gz' = [gz EXCEPT !.pc = loop_test([t.d EXCEPT !.error = ERR_UNDEFINED], f.v),
                                 !.d = [t.d EXCEPT !.error = ERR_UNDEFINED],
                                 !.block_final = f.v]
    /\ UNCHANGED <<mm_vars, sync_vars, boot_vars, percpu_vars, efi_vars, lib_vars>>

\* One symbol of deflate_block.
DeflateSymbol ==
    /\ gz.pc = "symbol"
    /\ \E beyond \in BeyondTables, before \in BeforeDest :
       \E r \in {deflate_block(gz.src, gz.d, gz.out, gz.dest0, beyond, before)} :
           gz' = [gz EXCEPT !.pc = IF r.done THEN loop_test(r.d, gz.block_final)
                                   ELSE "symbol",
                            !.d = r.d, !.out = r.out]
    /\ UNCHANGED <<mm_vars, sync_vars, boot_vars, percpu_vars, efi_vars, lib_vars>>

\* The end of deflate_buffer: *dest_len, and the value returned.
DeflateReturn ==
    /\ gz.pc = "deflate_end"
    /\ gz' = [gz EXCEPT !.pc = "trailer",
                        !.dest_len = IF gz.d.error = ERR_NONE THEN gz.d.dest_size ELSE @,
                        !.inner = gz.d.error]
    /\ UNCHANGED <<mm_vars, sync_vars, boot_vars, percpu_vars, efi_vars, lib_vars>>

\* decompress_gzip after deflate_buffer.
GzipTrailer ==
    /\ gz.pc = "trailer"
    /\ gz' = [gz EXCEPT !.pc = "done",
                        !.ret = gzip_trailer(gz.src, gz.inner, gz.dest_len, gz.out)]
    /\ UNCHANGED <<mm_vars, sync_vars, boot_vars, percpu_vars, efi_vars, lib_vars>>

gzip_step ==
    \/ DecompressGzip
    \/ DeflateNextBlock
    \/ DeflateSymbol
    \/ DeflateReturn
    \/ GzipTrailer


(***************************************************************************)
(* decompress_gzip on a range of buffers: well-formed members with stored, *)
(* fixed and dynamic blocks and with every optional header field, members  *)
(* whose framing is broken, whose DEFLATE stream is broken, and whose      *)
(* trailer does not match.                                                 *)
(***************************************************************************)
GzipInputs ==
    {<<31, 139, 8, 0, 0, 0, 0, 0, 0, 3, 3, 0, 0, 0, 0, 0, 0, 0, 0, 0>>,
     <<31, 139, 8, 0, 0, 0, 0, 0, 0, 3, 75, 4, 0, 67, 190, 183, 232, 1, 0,
       0, 0>>,
     <<31, 139, 8, 0, 0, 0, 0, 0, 0, 3, 1, 2, 0, 253, 255, 97, 98, 109, 72,
       131, 158, 2, 0, 0, 0>>,
     <<31, 139, 8, 0, 0, 0, 0, 0, 0, 3, 75, 76, 132, 0, 0, 70, 128, 132,
       191, 8, 0, 0, 0>>,
     <<31, 139, 8, 0, 0, 0, 0, 0, 0, 3, 75, 76, 74, 78, 132, 33, 0, 52, 42,
       110, 90, 12, 0, 0, 0>>,
     <<31, 139, 8, 0, 0, 0, 0, 0, 0, 3, 13, 198, 49, 1, 0, 0, 12, 195, 32,
       173, 161, 254, 61, 108, 92, 196, 164, 217, 251, 47, 116, 50, 101, 103,
       46, 23, 0, 0, 0>>,
     <<31, 139, 8, 0, 0, 0, 0, 0, 0, 3, 0, 2, 0, 253, 255, 120, 121, 171,
       2, 0, 103, 186, 142, 235, 3, 0, 0, 0>>,
     <<31, 139, 8, 8, 0, 0, 0, 0, 0, 3, 110, 0, 75, 4, 0, 67, 190, 183,
       232, 1, 0, 0, 0>>,
     <<31, 139, 8, 4, 0, 0, 0, 0, 0, 3, 2, 0, 1, 2, 75, 4, 0, 67, 190, 183,
       232, 1, 0, 0, 0>>,
     <<31, 139, 8, 19, 0, 0, 0, 0, 0, 3, 99, 0, 68, 190, 75, 4, 0, 67, 190,
       183, 232, 1, 0, 0, 0>>,
     <<31, 139, 8, 30, 0, 0, 0, 0, 0, 3, 0, 0, 0, 0, 10, 136, 3, 0, 0, 0,
       0, 0, 0, 0, 0, 0>>,
     <<31, 139, 8, 0, 0, 0, 0, 0, 0, 3, 75, 4, 0, 67, 190, 183, 232>>,
     <<>>,
     <<30, 139, 8, 0, 0, 0, 0, 0, 0, 3, 75, 4, 0, 67, 190, 183, 232, 1, 0,
       0, 0>>,
     <<31, 140, 8, 0, 0, 0, 0, 0, 0, 3, 75, 4, 0, 67, 190, 183, 232, 1, 0,
       0, 0>>,
     <<31, 139, 7, 0, 0, 0, 0, 0, 0, 3, 75, 4, 0, 67, 190, 183, 232, 1, 0,
       0, 0>>,
     <<31, 139, 8, 32, 0, 0, 0, 0, 0, 3, 75, 4, 0, 67, 190, 183, 232, 1, 0,
       0, 0>>,
     <<31, 139, 8, 4, 0, 0, 0, 0, 0, 3, 200, 0, 0, 67, 190, 183, 232, 1, 0,
       0, 0>>,
     <<31, 139, 8, 8, 0, 0, 0, 0, 0, 3, 65, 65, 65, 65, 65, 65, 65, 65, 65,
       65>>,
     <<31, 139, 8, 16, 0, 0, 0, 0, 0, 3, 66, 66, 66, 66, 66, 66, 66, 66,
       66, 66, 66, 66>>,
     <<31, 139, 8, 2, 0, 0, 0, 0, 0, 3, 52, 18, 75, 4, 0, 67, 190, 183,
       232, 1, 0, 0, 0>>,
     <<31, 139, 8, 8, 0, 0, 0, 0, 0, 3, 65, 65, 65, 65, 65, 65, 65, 0>>,
     <<31, 139, 8, 10, 0, 0, 0, 0, 0, 3, 65, 65, 65, 65, 65, 65, 0, 0>>,
     <<31, 139, 8, 8, 0, 0, 0, 0, 0, 3, 65, 65, 65, 0, 0, 0, 0, 0, 0, 0>>,
     <<31, 139, 8, 0, 0, 0, 0, 0, 0, 3, 0, 0, 0, 0, 0, 0, 0, 0>>,
     <<31, 139, 8, 0, 0, 0, 0, 0, 0, 3, 7, 0, 0, 0, 0, 0, 0, 0, 0>>,
     <<31, 139, 8, 0, 0, 0, 0, 0, 0, 3, 75, 76, 74, 52, 42, 110, 90, 12, 0,
       0, 0>>,
     <<31, 139, 8, 0, 0, 0, 0, 0, 0, 3, 1, 2, 0, 0, 0, 0, 0, 0, 0, 0, 0>>,
     <<31, 139, 8, 0, 0, 0, 0, 0, 0, 3, 1, 5, 0, 250, 255, 97, 98, 109, 72,
       131, 158, 2, 0, 0, 0>>,
     <<31, 139, 8, 0, 0, 0, 0, 0, 0, 3, 43, 28, 3, 0, 39, 174, 0, 245, 1,
       0, 0, 0>>,
     <<31, 139, 8, 0, 0, 0, 0, 0, 0, 3, 43, 4, 62, 0, 0, 0, 159, 19, 210,
       182, 4, 0, 0, 0>>,
     <<31, 139, 8, 0, 0, 0, 0, 0, 0, 3, 3, 2, 0, 18, 217, 65, 255, 3, 0, 0,
       0>>,
     <<31, 139, 8, 0, 0, 0, 0, 0, 0, 3, 0, 2, 0, 253, 255, 120, 121, 6,
       153, 40, 230, 143, 2, 0, 0, 0>>,
     <<31, 139, 8, 0, 0, 0, 0, 0, 0, 3, 202, 6, 40, 23, 118, 189, 211, 244,
       2, 0, 0, 0>>,
     <<31, 139, 8, 0, 0, 0, 0, 0, 0, 3, 5, 0, 2, 0, 0, 0, 0, 0, 0, 0, 0, 0>>,
     <<31, 139, 8, 0, 0, 0, 0, 0, 0, 3, 13, 198, 49, 1, 50, 101, 103, 46,
       23, 0, 0, 0>>,
     <<31, 139, 8, 0, 0, 0, 0, 0, 0, 3, 75, 4, 0, 66, 190, 183, 232, 1, 0,
       0, 0>>,
     <<31, 139, 8, 0, 0, 0, 0, 0, 0, 3, 75, 4, 0, 67, 190, 183, 232, 2, 0,
       0, 0>>,
     <<31, 139, 8, 0, 0, 0, 0, 0, 0, 3, 75, 76, 74, 78, 132, 33, 0, 52, 42,
       110, 218, 12, 0, 0, 0>>,
     <<31, 139, 8, 0, 0, 0, 0, 0, 0, 3, 253, 31, 128, 228, 255, 255, 31, 0, 0, 0, 0, 0, 0, 0, 0>>,
     <<31, 139, 8, 0, 0, 0, 0, 0, 0, 3, 1, 2, 0, 253, 255, 97, 98, 109, 72,
       131, 158, 1, 0, 0, 0>>}
\* What *dest_len holds when decompress_gzip is called.
DestLenInputs == {0, 1}

InitGzip ==
    /\ InitMM({PtPool}, {"ST_1"}, {TRUE}) /\ IdleSync /\ IdleBoot /\ IdlePercpu
    /\ IdleEfi /\ IdleLib
    /\ \E source \in GzipInputs, n \in DestLenInputs :
           gz = [NoCall(source, n) EXCEPT !.pc = "call"]

NextGzip == gzip_step

SpecGzip == InitGzip /\ [][NextGzip]_vars

\* CRC-32 as RFC 1952 defines it: bit by bit, polynomial 0xEDB88320
\* reflected, initial value and final complement 0xFFFFFFFF.
RECURSIVE crc_bits(_, _)
crc_bits(crc, n) ==
    IF n = 0 THEN crc
    ELSE CHOOSE out \in {crc_bits(c, n - 1)
                         : c \in {IF crc[2] % 2 = 1
                                  THEN xor32(shr32(crc, 1), <<60856, 33568>>)
                                  ELSE shr32(crc, 1)}} : TRUE

RECURSIVE crc_of(_, _, _, _)
crc_of(crc, buf, n, size) ==
    IF n >= size THEN crc
    ELSE CHOOSE out \in {crc_of(c, buf, n + 1, size)
                         : c \in {crc_bits(xor32(crc, <<0, byte_at(buf, n)>>), 8)}} : TRUE

CRC32(buf, size) == xor32(crc_of(<<65535, 65535>>, buf, 0, size), <<65535, 65535>>)

\* The framing of a GZIP member as RFC 1952 lays it out: ID1, ID2, CM = 8,
\* reserved flag bits clear, every optional field the flags announce
\* complete, a header CRC16 that matches, and room for CRC32 and ISIZE.
zero_from(src, from) == {q \in from .. (Len(src) - 1) : byte_at(src, q) = 0}
after_string(src, from) ==
    1 + CHOOSE q \in zero_from(src, from) : \A o \in zero_from(src, from) : q <= o

FramingValid(src) ==
    /\ Len(src) >= 10
    /\ byte_at(src, 0) = 31 /\ byte_at(src, 1) = 139 /\ byte_at(src, 2) = 8
    /\ byte_at(src, 3) < 32
    /\ LET flag   == byte_at(src, 3)
           has(f) == (flag \div f) % 2 = 1
           e      == IF has(4) /\ Len(src) >= 12 THEN 12 + get_unaligned_u16(src, 10)
                     ELSE 10
           n      == IF has(8) THEN after_string(src, e) ELSE e
           c      == IF has(16) THEN after_string(src, n) ELSE n
       IN  /\ has(4) => (Len(src) >= 12 /\ e <= Len(src))
           /\ has(8) => zero_from(src, e) # {}
           /\ has(16) => zero_from(src, n) # {}
           /\ has(2) => /\ c + 2 <= Len(src)
                        /\ get_unaligned_u16(src, c) = CRC32(src, c)[2]
           /\ (IF has(2) THEN c + 2 ELSE c) + 8 <= Len(src)

C26_NeverRecovers ==
    [][/\ gz'.d.error # ERR_NONE
              => /\ gz'.out = gz.out
                 /\ gz'.pc \notin {"block", "symbol"}
       /\ gz.d.error # ERR_NONE
              => /\ gz'.d.error = gz.d.error
                 /\ gz.pc = "deflate_end"
                        => (gz'.inner = gz.d.error /\ gz'.dest_len = gz.dest_len)
                 /\ gz.pc = "trailer" => gz'.ret # 0]_vars

\* BTYPE=11 in a block that was not the final one, after two bytes of
\* output: the call has ended with those two bytes and the caller's length.
C26_Witness ==
    /\ gz.pc = "done"
    /\ gz.d.error = ERR_UNDEFINED /\ gz.block_final = 0
    /\ Len(gz.out) = 2
    /\ gz.dest_len \in DestLenInputs /\ gz.dest_len # Len(gz.out)
    /\ gz.ret = -EIO


(***************************************************************************)
(* The UEFI stub: __efistub_efi_entry, from the firmware's call to the     *)
(* jump into the ukernel.  The firmware is the environment: its memory map *)
(* changes under the stub, and every boot service can fail.                *)
(***************************************************************************)
EFI_PAGE_SIZE == 4096
EFI_GET_MEMORY_MAP_SLACK_SLOTS == 8
\* config.h is not part of the sources at hand: two pages.
MIN_UKERNEL_ALIGN == 2 * EFI_PAGE_SIZE
\* sizeof(EFI_MEMORY_DESCRIPTOR) as the firmware reports it in desc_size.
DescSize == 48
MaxMapKey == 2

ALIGN_UP(x, a) == ((x + a - 1) \div a) * a

\* efi_allocate_pages(size, align, type, &alloc_addr), status the status of
\* AllocatePages and raw_addr the address it gave.  Returns [status, addr,
\* freed]: freed the <<address, pages>> handed back with FreePages.
efi_allocate_pages(size, align, status, raw_addr) ==
    LET al        == IF align < EFI_PAGE_SIZE THEN EFI_PAGE_SIZE ELSE align
        sz        == ALIGN_UP(size, EFI_PAGE_SIZE)
        pad_pages == (al \div EFI_PAGE_SIZE) - 1
        aligned   == ALIGN_UP(raw_addr, al)
        leading   == (aligned - raw_addr) \div EFI_PAGE_SIZE
        trailing  == pad_pages - leading
    IN  IF status # EFI_SUCCESS THEN [status |-> status, addr |-> 0, freed |-> {}]
        ELSE [status |-> EFI_SUCCESS, addr |-> aligned,
              freed |-> {<<raw_addr, leading>> : x \in {y \in {1} : leading # 0}}
                        \cup {<<aligned + sz, trailing>> : x \in {y \in {1} : trailing # 0}}]

\* efi_get_config_table(guid): the first table with that GUID, or NULL.
RECURSIVE efi_get_config_table(_, _, _)
efi_get_config_table(config_table, guid, k) ==
    IF k > Len(config_table) THEN 0
    ELSE IF config_table[k].guid = guid THEN config_table[k].table
    ELSE efi_get_config_table(config_table, guid, k + 1)

\* The boot service GetMemoryMap as UEFI defines it.
get_memory_map(f, map_size, has_buffer) ==
    LET needed == f.ndesc * DescSize
    IN  IF map_size < needed
        THEN [status |-> EFI_BUFFER_TOO_SMALL, map_size |-> needed, key |-> f.key]
        ELSE IF ~has_buffer
        THEN [status |-> EFI_INVALID_PARAMETER, map_size |-> map_size, key |-> f.key]
        ELSE [status |-> EFI_SUCCESS, map_size |-> needed, key |-> f.key]

\* The boot service ExitBootServices: the key must be that of the current map.
exit_boot_services(f, map_key, fault) ==
    IF fault THEN [status |-> EFI_DEVICE_ERROR, fw |-> f]
    ELSE IF map_key # f.key THEN [status |-> EFI_INVALID_PARAMETER, fw |-> f]
    ELSE [status |-> EFI_SUCCESS, fw |-> [f EXCEPT !.bs = FALSE]]

bs_call(fn, key, status) == [fn |-> fn, key |-> key, status |-> status]

\* A stub that takes any outcome of decompress_gzip for success.
decompressed_anyway(ret) == EFI_SUCCESS

\* What __efistub_efi_entry makes of the value of decompress_gzip.
decompressed(ret) == IF ret # 0 THEN EFI_LOAD_ERROR ELSE EFI_SUCCESS

\* A loop that calls ExitBootServices again with the key it has.
retry_same_key(status) == IF status = EFI_INVALID_PARAMETER THEN "exit" ELSE "leave"

\* The test of the do ... while of efi_exit_boot_services.
retry(status) == IF status = EFI_INVALID_PARAMETER THEN "get_map" ELSE "leave"

returned(status) == [efi EXCEPT !.pc = "returned", !.ret = status]

\* __efistub_efi_entry up to the call of decompress_gzip.
EfiEntry ==
    /\ efi.pc = "entry"
    /\ \E status \in {EFI_SUCCESS, EFI_OUT_OF_RESOURCES},
          raw_addr \in {EFI_PAGE_SIZE, 2 * EFI_PAGE_SIZE} :
       \E a \in {efi_allocate_pages(efi.payload_size, MIN_UKERNEL_ALIGN, status, raw_addr)} :
           IF a.status # EFI_SUCCESS
           THEN /\ efi' = [returned(a.status) EXCEPT !.pages = a.status]
                /\ UNCHANGED <<fw, gz>>
           ELSE /\ efi' = [efi EXCEPT !.pc = "decompress", !.pages = a.status,
                                      !.alloc_addr = a.addr]
                /\ fw' = [fw EXCEPT !.key = @ + 1]
                /\ gz' = [NoCall(efi.gzdata, efi.payload_size) EXCEPT !.pc = "call"]
    /\ UNCHANGED <<mm_vars, sync_vars, boot_vars, percpu_vars, lib_vars>>

\* From the return of decompress_gzip to the loop of efi_exit_boot_services:
\* clean_cache, the device tree lookup, the size query and AllocatePool.
EfiDecompressed ==
    /\ efi.pc = "decompress" /\ gz.pc = "done"
    /\ \E pool_status \in {EFI_SUCCESS, EFI_OUT_OF_RESOURCES} :
       \E q \in {get_memory_map(fw, 0, FALSE)} :
           LET fdt    == efi_get_config_table(fw.config_table, "DEVICE_TREE", 1)
               asked  == [efi EXCEPT !.fdt = fdt, !.target = efi.alloc_addr,
                                     !.calls = Append(@, bs_call("GetMemoryMap", q.key,
                                                                 q.status))]
               pooled == [asked EXCEPT !.calls = Append(@, bs_call("AllocatePool", 0, pool_status))]
           IN  IF decompressed(gz.ret) # EFI_SUCCESS
               THEN efi' = returned(decompressed(gz.ret)) /\ fw' = fw
               ELSE IF q.status # EFI_BUFFER_TOO_SMALL
               THEN efi' = [asked EXCEPT !.pc = "returned", !.ret = EFI_LOAD_ERROR]
                    /\ fw' = fw
               ELSE IF pool_status # EFI_SUCCESS
               THEN efi' = [pooled EXCEPT !.pc = "returned", !.ret = pool_status] /\ fw' = fw
               ELSE /\ efi' = [pooled EXCEPT
                                 !.pc = "get_map",
                                 !.alloc_size = q.map_size
                                                + DescSize * EFI_GET_MEMORY_MAP_SLACK_SLOTS]
                    /\ fw' = [fw EXCEPT !.key = @ + 1, !.ndesc = @ + 1]
    /\ UNCHANGED <<mm_vars, sync_vars, boot_vars, percpu_vars, gzip_vars, lib_vars>>

\* The first half of a turn of the loop: GetMemoryMap into the buffer.
EfiGetMemoryMap ==
    /\ efi.pc = "get_map"
    /\ \E m \in {get_memory_map(fw, efi.alloc_size, TRUE)} :
           LET called == [efi EXCEPT !.calls = Append(@, bs_call("GetMemoryMap", m.key,
                                                                 m.status))]
           IN  efi' = IF m.status # EFI_SUCCESS
                      THEN [called EXCEPT !.pc = "returned", !.ret = m.status]
                      ELSE [called EXCEPT !.pc = "exit", !.map_key = m.key]
    /\ UNCHANGED <<fw, mm_vars, sync_vars, boot_vars, percpu_vars, gzip_vars, lib_vars>>

\* The second half: ExitBootServices, the loop test, and what
\* __efistub_efi_entry does with the status efi_exit_boot_services returns.
EfiExitBootServices ==
    /\ efi.pc = "exit"
    /\ \E fault \in BOOLEAN :
       \E x \in {exit_boot_services(fw, efi.map_key, fault)} :
           LET called == [efi EXCEPT !.calls = Append(@, bs_call("ExitBootServices",
                                                                 efi.map_key, x.status))]
           IN  /\ efi' = IF retry(x.status) # "leave"
                         THEN [called EXCEPT !.pc = retry(x.status)]
                         ELSE IF x.status # EFI_SUCCESS
                         THEN [called EXCEPT !.pc = "returned", !.ret = x.status]
                         ELSE [called EXCEPT !.pc = "ukernel", !.arg = efi.fdt]
               /\ fw' = x.fw
    /\ UNCHANGED <<mm_vars, sync_vars, boot_vars, percpu_vars, gzip_vars, lib_vars>>

\* The firmware changes its memory map while the stub is in the loop; grow
\* is the number of descriptors the map gains.
FirmwareMapChange(grow) ==
    /\ efi.pc \in {"get_map", "exit"}
    /\ fw.bs /\ fw.key < MaxMapKey + 2
    /\ fw' = [fw EXCEPT !.key = @ + 1, !.ndesc = @ + grow]
    /\ UNCHANGED <<efi, mm_vars, sync_vars, boot_vars, percpu_vars, gzip_vars, lib_vars>>

PayloadInputs ==
    {<<31, 139, 8, 0, 0, 0, 0, 0, 0, 3, 75, 4, 0, 67, 190, 183, 232, 1, 0, 0, 0>>,
     <<31, 139, 8, 0, 0, 0, 0, 0, 0, 3, 75, 4, 0, 66, 190, 183, 232, 1, 0, 0, 0>>,
     <<31, 139, 8, 0, 0, 0, 0, 0, 0, 3, 75, 76, 74, 52, 42, 110, 90, 12, 0, 0, 0>>}

ConfigTables ==
    {<< >>,
     <<[guid |-> "ACPI_20", table |-> 64]>>,
     <<[guid |-> "ACPI_20", table |-> 64], [guid |-> "DEVICE_TREE", table |-> 128],
       [guid |-> "DEVICE_TREE", table |-> 192]>>}

InitEfi ==
    /\ InitMM({PtPool}, {"ST_1"}, {TRUE}) /\ IdleSync /\ IdleBoot /\ IdlePercpu
    /\ IdleGzip /\ IdleLib
    /\ \E payload \in PayloadInputs, tables \in ConfigTables, ndesc \in {0, 3} :
           /\ efi = [NoEntry EXCEPT !.pc = "entry", !.gzdata = payload, !.payload_size = 1]
           /\ fw = [NoFirmware EXCEPT !.config_table = tables, !.ndesc = ndesc]

NextEfi ==
    \/ EfiEntry
    \/ (efi.pc = "decompress" /\ gzip_step)
    \/ EfiDecompressed
    \/ EfiGetMemoryMap
    \/ EfiExitBootServices
    \/ \E grow \in {0, 1, EFI_GET_MEMORY_MAP_SLACK_SLOTS} : FirmwareMapChange(grow)

SpecEfi == InitEfi /\ [][NextEfi]_vars

ExitCalls == {k \in DOMAIN efi.calls : efi.calls[k].fn = "ExitBootServices"}
\* The calls of GetMemoryMap made in the loop: all but the size query.
LoopMapCalls ==
    {k \in DOMAIN efi.calls : k > 1 /\ efi.calls[k].fn = "GetMemoryMap"}

\* C23: every ExitBootServices call passes the key of a GetMemoryMap that
\* succeeded as the boot-service call right before it; after
\* EFI_INVALID_PARAMETER the map is fetched again before the next attempt;
\* any other status, and a failed GetMemoryMap, is the last call, and a
\* failure is what the stub returns.
C23_ExitWithFreshKey ==
    /\ \A k \in ExitCalls :
           /\ k > 1
           /\ efi.calls[k - 1].fn = "GetMemoryMap"
           /\ efi.calls[k - 1].status = EFI_SUCCESS
           /\ efi.calls[k].key = efi.calls[k - 1].key
           /\ IF efi.calls[k].status = EFI_INVALID_PARAMETER
              THEN IF k < Len(efi.calls) THEN efi.calls[k + 1].fn = "GetMemoryMap"
                   ELSE efi.pc = "get_map"
              ELSE /\ k = Len(efi.calls)
                   /\ IF efi.calls[k].status = EFI_SUCCESS THEN efi.pc = "ukernel"
                      ELSE efi.pc = "returned" /\ efi.ret = efi.calls[k].status
    /\ \A k \in LoopMapCalls :
           efi.calls[k].status # EFI_SUCCESS
               => /\ k = Len(efi.calls)
                  /\ efi.pc = "returned" /\ efi.ret = efi.calls[k].status

\* The map changed between GetMemoryMap and ExitBootServices: the first
\* attempt was refused, the second went through with the new key.
C23_Witness ==
    /\ Cardinality(ExitCalls) = 2
    /\ efi.calls[Len(efi.calls)].status = EFI_SUCCESS
    /\ efi.calls[Len(efi.calls)].key # efi.calls[Len(efi.calls) - 2].key
    /\ efi.pc = "ukernel"

\* C24: the stub is in the ukernel only after page allocation and
\* decompression succeeded and ExitBootServices returned EFI_SUCCESS, at the
\* address it decompressed to, with the device tree pointer as argument;
\* when one of the three fails it has returned a status other than
\* EFI_SUCCESS, and has not jumped.
C24_JumpOnlyAfterExit ==
    /\ efi.pc = "ukernel"
           => /\ efi.pages = EFI_SUCCESS
              /\ gz.pc = "done" /\ gz.ret = 0
              /\ efi.calls # << >>
              /\ efi.calls[Len(efi.calls)] = bs_call("ExitBootServices", fw.key, EFI_SUCCESS)
              /\ ~fw.bs
              /\ efi.target = efi.alloc_addr
              /\ efi.arg = efi_get_config_table(fw.config_table, "DEVICE_TREE", 1)
    /\ efi.pc = "returned" => (efi.ret # EFI_SUCCESS /\ efi.ret # NoStatus)
    /\ efi.pc # "ukernel" => (efi.arg = NoJump /\ fw.bs)
    /\ (efi.pages \notin {EFI_SUCCESS, NoStatus}) => efi.pc = "returned"
    /\ (gz.pc = "done" /\ gz.ret # 0) => efi.pc \in {"decompress", "returned"}
    /\ (ExitCalls # {} /\ efi.calls[Len(efi.calls)].status \notin
                              {EFI_SUCCESS, EFI_INVALID_PARAMETER})
           => efi.pc = "returned"

\* The stub has jumped with the device tree the firmware published.
C24_Witness ==
    /\ efi.pc = "ukernel"
    /\ efi.arg = 128
    /\ Len(gz.out) = 1

\* The payload did not decompress: EFI_LOAD_ERROR, and no boot-service call
\* of efi_exit_boot_services was made.
C24_WitnessLoadError ==
    /\ efi.pc = "returned" /\ efi.ret = EFI_LOAD_ERROR
    /\ gz.pc = "done" /\ gz.ret = -EIO
    /\ efi.calls = << >>


(***************************************************************************)
(* The self-relocator: apply_rela over .rela.dyn, one entry at a step.     *)
(***************************************************************************)
R_AARCH64_RELATIVE == 1027
\* r_info is held as <<the symbol index (bits 63:32), the type (bits 31:0)>>.
ELF64_R_TYPE(info) == info[2]
MaxRela == 3
MaxWfe == 2

\* An entry of another type that is passed over instead of stopping the CPU.
rela_entry_lenient(r, image, phys_base, bias) ==
    [spin  |-> FALSE,
     image |-> IF ELF64_R_TYPE(r.r_info) # R_AARCH64_RELATIVE THEN image
               ELSE [a \in DOMAIN image \cup {Wrap(phys_base + r.r_offset)} |->
                        IF a = Wrap(phys_base + r.r_offset) THEN Wrap(r.r_addend + bias)
                        ELSE image[a]]]

\* One turn of the for loop of apply_rela.  Returns [spin, image]: image the
\* 64-bit words stored so far, by address.
rela_entry(r, image, phys_base, bias) ==
    IF ELF64_R_TYPE(r.r_info) # R_AARCH64_RELATIVE THEN [spin |-> TRUE, image |-> image]
    ELSE [spin  |-> FALSE,
          image |-> [a \in DOMAIN image \cup {Wrap(phys_base + r.r_offset)} |->
                        IF a = Wrap(phys_base + r.r_offset) THEN Wrap(r.r_addend + bias)
                        ELSE image[a]]]

\* apply_rela(bias): the loop test and one entry.
ApplyRela ==
    /\ rel.pc = "apply"
    /\ IF rel.k > Len(rel.rela) THEN rel' = [rel EXCEPT !.pc = "returned"]
       ELSE \E e \in {rela_entry(rel.rela[rel.k], rel.image, rel.phys_base, rel.bias)} :
                rel' = IF e.spin THEN [rel EXCEPT !.pc = "spin"]
                       ELSE [rel EXCEPT !.image = e.image, !.k = @ + 1]
    /\ UNCHANGED <<io, rng, script, formatter, mm_vars, sync_vars, boot_vars, percpu_vars, gzip_vars, efi_vars>>

\* for (;;) wfe.
RelaWfe ==
    /\ rel.pc = "spin"
    /\ rel' = [rel EXCEPT !.wfe = IF @ < MaxWfe THEN @ + 1 ELSE @]
    /\ UNCHANGED <<io, rng, script, formatter, mm_vars, sync_vars, boot_vars, percpu_vars, gzip_vars, efi_vars>>

RelaEntries ==
    [r_offset : {0, 8}, r_info : {<<0, R_AARCH64_RELATIVE>>, <<0, 257>>, <<1, 1025>>},
     r_addend : {-8, 16}]

RECURSIVE RelaTables(_)
RelaTables(n) ==
    IF n = 0 THEN {<< >>}
    ELSE RelaTables(n - 1)
         \cup {Append(t, r) : t \in {u \in RelaTables(n - 1) : Len(u) = n - 1},
                              r \in RelaEntries}

InitRela ==
    /\ InitMM({PtPool}, {"ST_1"}, {TRUE}) /\ IdleSync /\ IdleBoot /\ IdlePercpu
    /\ IdleGzip /\ IdleEfi /\ io = NoPrint /\ rng = NoRange /\ script = NoScript /\ formatter = NoFormatter
    /\ \E table \in RelaTables(MaxRela), bias \in {0, AddrSpace - 16} :
           rel = [pc |-> "apply", rela |-> table, k |-> 1, image |-> << >>,
                  phys_base |-> 64, bias |-> bias, wfe |-> 0]

NextRela == ApplyRela \/ RelaWfe

SpecRela == InitRela /\ [][NextRela]_vars

\* The entries of another type.
foreign(t) == {k \in DOMAIN t : ELF64_R_TYPE(t[k].r_info) # R_AARCH64_RELATIVE}
\* The image after the entries before index k were applied in order: each
\* word holds what the last entry for it stored.
applied(t, k, phys_base, bias) ==
    LET at(a) == {j \in 1 .. (k - 1) : Wrap(phys_base + t[j].r_offset) = a}
        last_at(a) == CHOOSE j \in at(a) : \A o \in at(a) : o <= j
    IN  [a \in {Wrap(phys_base + t[j].r_offset) : j \in 1 .. (k - 1)} |->
            Wrap(t[last_at(a)].r_addend + bias)]

\* C27: the relocator applies R_AARCH64_RELATIVE entries only, in the order
\* of .rela.dyn, and stops for good at the first entry of another type:
\* what it has stored is what the entries before that one store, it spins
\* in WFE from then on, and it returns only from a table without such an
\* entry.
C27_RelativeOnly ==
    [][/\ \A k \in foreign(rel.rela) : rel'.k <= k
       /\ rel'.image = applied(rel.rela, rel'.k, rel.phys_base, rel.bias)
       /\ rel'.pc = "spin" => rel'.k \in foreign(rel.rela)
       /\ rel'.pc = "returned" => (foreign(rel.rela) = {} /\ rel'.k = Len(rel.rela) + 1)
       /\ rel.pc = "spin" => (rel'.pc = "spin" /\ rel'.image = rel.image)]_vars

\* Two entries for one word were applied in order, the third is of another
\* type: the CPU has executed WFE more than once.
C27_Witness ==
    /\ rel.pc = "spin" /\ rel.wfe = MaxWfe
    /\ rel.k = 3 /\ Len(rel.rela) = 3
    /\ rel.rela[1].r_offset = rel.rela[2].r_offset
    /\ rel.rela[1].r_addend # rel.rela[2].r_addend


(***************************************************************************)
(* snprintf: the formatter iob_vsnprintf over the write sink iob_write.    *)
(* A character is a string of length one, "NUL" the terminating byte; a    *)
(* format and a string argument are sequences of characters; an argument   *)
(* is [int |-> n], [str |-> s], [null |-> TRUE] or [chr |-> c].            *)
(***************************************************************************)
min(a, b) == IF a < b THEN a ELSE b

\* A sink that hands out the whole of what is left of the destination.
iob_write_whole(iob, buf) ==
    IF iob.size = 0 THEN [iob |-> iob, n |-> 0]
    ELSE LET n == min(Len(buf), iob.size)
         IN  [iob |-> [iob EXCEPT !.mem = [a \in DOMAIN iob.mem \cup
                                                  (iob.str .. (iob.str + n - 1)) |->
                                              IF a >= iob.str /\ a < iob.str + n
                                              THEN buf[a - iob.str + 1] ELSE iob.mem[a]],
                                  !.str = @ + n,
                                  !.size = @ - n],
              n |-> n]

\* iob_write(io, buf, count): iob is [str, size, mem], str the offset of
\* iob->str from the str snprintf was given, mem the bytes stored, by offset.
iob_write(iob, buf) ==
    IF iob.size = 0 THEN [iob |-> iob, n |-> 0]
    ELSE LET n == min(Len(buf), iob.size - 1)
         IN  [iob |-> [iob EXCEPT !.mem = [a \in DOMAIN iob.mem \cup
                                                  (iob.str .. (iob.str + n - 1)) |->
                                              IF a >= iob.str /\ a < iob.str + n
                                              THEN buf[a - iob.str + 1] ELSE iob.mem[a]],
                                  !.str = @ + n,
                                  !.size = @ - n],
              n |-> n]

\* wbuffer_no_flush with buf_size = 0: every turn bypasses the buffer.
RECURSIVE wbuffer_no_flush(_, _)
wbuffer_no_flush(iob, buf) ==
    IF Len(buf) = 0 THEN iob
    ELSE CHOOSE out \in
             {(IF w.n = 0 THEN w.iob
               ELSE wbuffer_no_flush(w.iob, SubSeq(buf, w.n + 1, Len(buf))))
              : w \in {iob_write(iob, buf)}} : TRUE

\* __iob_write in mode _IONBF.
iob_write_unbuffered(iob, buf) == IF Len(buf) # 0 THEN wbuffer_no_flush(iob, buf) ELSE iob

\* What the formatter emits is a sequence of __iob_write calls: chunks.
put_chars(cs) == [k \in 1 .. Len(cs) |-> <<cs[k]>>]

pad(left, c, width, len) ==
    IF ~left /\ width > len THEN [k \in 1 .. (width - len) |-> <<c>>] ELSE << >>

digit_table(flags) ==
    IF "UPPER" \in flags
    THEN <<"0", "1", "2", "3", "4", "5", "6", "7", "8", "9", "A", "B", "C", "D", "E", "F">>
    ELSE <<"0", "1", "2", "3", "4", "5", "6", "7", "8", "9", "a", "b", "c", "d", "e", "f">>

\* The digits of value, least significant first, as the do loop stores them.
RECURSIVE digits_of(_, _, _)
digits_of(value, base, flags) ==
    <<digit_table(flags)[(value % base) + 1]>>
        \o (IF value \div base = 0 THEN << >> ELSE digits_of(value \div base, base, flags))

reverse(sq) == [k \in 1 .. Len(sq) |-> sq[Len(sq) + 1 - k]]

format_integer(value, flags, base, width, precision) ==
    LET negative == "SIGNED" \in flags /\ value < 0
        digs     == digits_of(IF negative THEN -value ELSE value, base, flags)
        buf      == digs \o [k \in 1 .. (precision - Len(digs)) |-> "0"]
        sign     == IF negative THEN <<"-">>
                    ELSE IF "PLUS" \in flags THEN <<"+">>
                    ELSE IF "SPACE" \in flags THEN <<" ">>
                    ELSE << >>
        hash     == IF "HASH" \notin flags THEN << >>
                    ELSE IF base = 16 THEN <<"0", IF "UPPER" \in flags THEN "X" ELSE "x">>
                    ELSE IF base = 8 THEN <<"0">>
                    ELSE << >>
        prefix   == sign \o hash
        total_len == Len(prefix) + Len(buf)
    IN  pad("MINUS" \notin flags, IF "ZERO" \in flags THEN "0" ELSE " ", width, total_len)
        \o put_chars(prefix)
        \o put_chars(reverse(buf))
        \o pad("MINUS" \in flags, " ", width, total_len)

\* The casts of get_arg_int.
get_arg_int(arg, rank, flags) ==
    LET cut(bits) == IF "SIGNED" \in flags
                     THEN ((arg.int + Pow2(bits - 1)) % Pow2(bits)) - Pow2(bits - 1)
                     ELSE arg.int % Pow2(bits)
    IN  IF rank = -2 THEN cut(8) ELSE IF rank = -1 THEN cut(16) ELSE arg.int

\* format_string(io, s, flags, width, precision): s the characters up to
\* the terminating byte.
format_string(str, flags, width, precision) ==
    LET len == IF precision >= 0 /\ Len(str) > precision THEN precision ELSE Len(str)
    IN  pad("MINUS" \notin flags, " ", width, len)
        \o <<SubSeq(str, 1, len)>>
        \o pad("MINUS" \in flags, " ", width, len)

char_at(fmt, p) == IF p > Len(fmt) THEN "NUL" ELSE fmt[p]
is_digit(c) == c \in {"0", "1", "2", "3", "4", "5", "6", "7", "8", "9"}
digit_value(c) == CHOOSE v \in 0 .. 9 : digit_table({})[v + 1] = c

flag_of(c) ==
    IF c = "-" THEN "MINUS" ELSE IF c = "+" THEN "PLUS" ELSE IF c = " " THEN "SPACE"
    ELSE IF c = "0" THEN "ZERO" ELSE "HASH"

RECURSIVE parse_flags(_, _, _)
parse_flags(fmt, p, flags) ==
    IF char_at(fmt, p) \in {"-", "+", " ", "0", "#"}
    THEN parse_flags(fmt, p + 1, flags \cup {flag_of(char_at(fmt, p))})
    ELSE [p |-> p, flags |-> flags]

RECURSIVE parse_number(_, _, _)
parse_number(fmt, p, n) ==
    IF is_digit(char_at(fmt, p)) THEN parse_number(fmt, p + 1, n * 10 + digit_value(fmt[p]))
    ELSE [p |-> p, n |-> n]

RECURSIVE parse_length(_, _, _)
parse_length(fmt, p, rank) ==
    IF char_at(fmt, p) = "h"
    THEN parse_length(fmt, p + 1, IF rank > -2 THEN rank - 1 ELSE rank)
    ELSE IF char_at(fmt, p) = "l"
    THEN parse_length(fmt, p + 1, IF rank < 2 THEN rank + 1 ELSE rank)
    ELSE [p |-> p, rank |-> rank]

\* One conversion specification, p after the '%' and ai the next argument.
\* Returns [p, ai, chunks, ok].
conversion(fmt, args, p0, ai0) ==
    LET f   == parse_flags(fmt, p0, {})
        w   == IF char_at(fmt, f.p) = "*"
               THEN [p |-> f.p + 1, ai |-> ai0 + 1,
                     n |-> IF args[ai0].int < 0 THEN -args[ai0].int ELSE args[ai0].int,
                     flags |-> IF args[ai0].int < 0 THEN f.flags \cup {"MINUS"} ELSE f.flags]
               ELSE [p |-> parse_number(fmt, f.p, 0).p, ai |-> ai0,
                     n |-> parse_number(fmt, f.p, 0).n, flags |-> f.flags]
        pr  == IF char_at(fmt, w.p) # "." THEN [p |-> w.p, ai |-> w.ai, n |-> -1]
               ELSE IF char_at(fmt, w.p + 1) = "*"
               THEN [p |-> w.p + 2, ai |-> w.ai + 1,
                     n |-> IF args[w.ai].int < 0 THEN -1 ELSE args[w.ai].int]
               ELSE [p |-> parse_number(fmt, w.p + 1, 0).p, ai |-> w.ai,
                     n |-> parse_number(fmt, w.p + 1, 0).n]
        ln  == parse_length(fmt, pr.p, 0)
        c   == char_at(fmt, ln.p)
        int(flags, base) ==
            [p |-> ln.p + 1, ai |-> pr.ai + 1, ok |-> TRUE,
             chunks |-> format_integer(get_arg_int(args[pr.ai], ln.rank, flags), flags,
                                       base, w.n, pr.n)]
    IN  IF c \in {"d", "i"} THEN int(w.flags \cup {"SIGNED"}, 10)
        ELSE IF c = "u" THEN int(w.flags, 10)
        ELSE IF c = "o" THEN int(w.flags, 8)
        ELSE IF c = "X" THEN int(w.flags \cup {"UPPER"}, 16)
        ELSE IF c = "x" THEN int(w.flags, 16)
        ELSE IF c \in {"p", "P"}
        THEN [p |-> ln.p + 1, ai |-> pr.ai + 1, ok |-> TRUE,
              chunks |-> format_integer(args[pr.ai].int,
                                        w.flags \cup {"HASH"}
                                            \cup (IF c = "P" THEN {"UPPER"} ELSE {}),
                                        16, w.n, 16)]
        \* strlen(&c) of a char that is not zero is at least 1, and the
        \* precision 1 cuts it to 1; of a zero char it is 0.
        ELSE IF c = "c"
        THEN [p |-> ln.p + 1, ai |-> pr.ai + 1, ok |-> TRUE,
              chunks |-> format_string(IF args[pr.ai].chr = "NUL" THEN << >>
                                       ELSE <<args[pr.ai].chr>>,
                                       w.flags, w.n, 1)]
        ELSE IF c = "s"
        THEN [p |-> ln.p + 1, ai |-> pr.ai + 1, ok |-> TRUE,
              chunks |-> format_string(IF "null" \in DOMAIN args[pr.ai]
                                       THEN <<"(", "n", "u", "l", "l", ")">>
                                       ELSE args[pr.ai].str,
                                       w.flags, w.n, pr.n)]
        ELSE IF c = "%"
        THEN [p |-> ln.p + 1, ai |-> pr.ai, ok |-> TRUE, chunks |-> <<<<"%">>>>]
        ELSE [p |-> ln.p + 1, ai |-> pr.ai, ok |-> FALSE, chunks |-> << >>]

RECURSIVE chunk_chars(_)
chunk_chars(chunks) ==
    IF chunks = << >> THEN 0 ELSE Len(Head(chunks)) + chunk_chars(Tail(chunks))

\* iob_vsnprintf(io, fmt, ap) from fmt[p] on.  Returns [chunks, ret]: the
\* calls of __iob_write in order, and iob_count or -1.
RECURSIVE iob_vsnprintf(_, _, _, _, _)
iob_vsnprintf(fmt, args, p, ai, chunks) ==
    IF p > Len(fmt) THEN [chunks |-> chunks, ret |-> chunk_chars(chunks)]
    ELSE IF fmt[p] # "%" THEN iob_vsnprintf(fmt, args, p + 1, ai, Append(chunks, <<fmt[p]>>))
    ELSE CHOOSE out \in
             {(IF ~c.ok THEN [chunks |-> chunks \o c.chunks, ret |-> -1]
               ELSE iob_vsnprintf(fmt, args, c.p, c.ai, chunks \o c.chunks))
              : c \in {conversion(fmt, args, p + 1, ai)}} : TRUE

RECURSIVE write_all(_, _)
write_all(iob, chunks) ==
    IF chunks = << >> THEN iob
    ELSE CHOOSE out \in {write_all(w, Tail(chunks))
                         : w \in {iob_write_unbuffered(iob, Head(chunks))}} : TRUE

\* snprintf(str, size, fmt, ...).  Returns [mem, ret].
snprintf(size, fmt, args) ==
    CHOOSE out \in
        {[mem |-> IF size # 0
                  THEN [a \in DOMAIN iob.mem \cup {iob.str} |->
                           IF a = iob.str THEN "NUL" ELSE iob.mem[a]]
                  ELSE iob.mem,
          ret |-> v.ret]
         : iob \in {write_all([str |-> 0, size |-> size, mem |-> << >>], v.chunks)
                    : v \in {iob_vsnprintf(fmt, args, 1, 1, << >>)}},
           v \in {iob_vsnprintf(fmt, args, 1, 1, << >>)}} : TRUE

PrintInputs ==
    {[fmt |-> <<"a", "b">>, args |-> <<>>],
     [fmt |-> <<>>, args |-> <<>>],
     [fmt |-> <<"%", "d">>, args |-> <<[int |-> -42]>>],
     [fmt |-> <<"x", "=", "%", "5", "d">>, args |-> <<[int |-> 7]>>],
     [fmt |-> <<"%", "-", "4", "x", "|">>, args |-> <<[int |-> 255]>>],
     [fmt |-> <<"%", "#", "X">>, args |-> <<[int |-> 255]>>],
     [fmt |-> <<"%", "s">>, args |-> <<[str |-> <<"h", "e", "y">>]>>],
     [fmt |-> <<"%", ".", "2", "s", "!">>, args |-> <<[str |-> <<"h", "e", "y">>]>>],
     [fmt |-> <<"[", "%", "s", "]">>, args |-> <<[null |-> TRUE]>>],
     [fmt |-> <<"%", "c", "%", "c", ".">>, args |-> <<[chr |-> "a"], [chr |-> "NUL"]>>],
     [fmt |-> <<"1", "0", "0", "%", "%">>, args |-> <<>>],
     [fmt |-> <<"%", "*", "d">>, args |-> <<[int |-> 3], [int |-> 5]>>],
     [fmt |-> <<"%", "*", "d">>, args |-> <<[int |-> -3], [int |-> 5]>>],
     [fmt |-> <<"%", "0", "5", ".", "3", "d">>, args |-> <<[int |-> 7]>>],
     [fmt |-> <<"%", "+", "d", " ", "%", "o">>, args |-> <<[int |-> 5], [int |-> 8]>>],
     [fmt |-> <<"%", "h", "h", "d">>, args |-> <<[int |-> 300]>>],
     [fmt |-> <<"%", "h", "u">>, args |-> <<[int |-> 65537]>>],
     [fmt |-> <<"a", "%", "q">>, args |-> <<[int |-> 1]>>],
     [fmt |-> <<"%", "-", "6", "s", "|">>, args |-> <<[str |-> <<"h", "i">>]>>],
     [fmt |-> <<"%", ".", "*", "s">>, args |-> <<[int |-> 1], [str |-> <<"h", "e", "y">>]>>],
     [fmt |-> <<"%", "l", "l", "d">>, args |-> <<[int |-> 0]>>],
     [fmt |-> <<"%", " ", "d">>, args |-> <<[int |-> 9]>>],
     [fmt |-> <<"n", "%">>, args |-> <<>>]}
MaxSize == 8

\* A call of snprintf, from the call to the return.
Snprintf ==
    /\ io.pc = "call"
    /\ \E r \in {snprintf(io.size, io.fmt, io.args)} :
           io' = [io EXCEPT !.pc = "done", !.mem = r.mem, !.ret = r.ret]
    /\ UNCHANGED <<rel, rng, script, formatter, mm_vars, sync_vars, boot_vars, percpu_vars, gzip_vars, efi_vars>>

InitPrint ==
    /\ InitMM({PtPool}, {"ST_1"}, {TRUE}) /\ IdleSync /\ IdleBoot /\ IdlePercpu
    /\ IdleGzip /\ IdleEfi /\ rel = NoReloc /\ rng = NoRange /\ script = NoScript /\ formatter = NoFormatter
    /\ \E in \in PrintInputs, size \in 0 .. MaxSize :
           io = [NoPrint EXCEPT !.pc = "call", !.size = size, !.fmt = in.fmt,
                                !.args = in.args]

NextPrint == Snprintf

SpecPrint == InitPrint /\ [][NextPrint]_vars

\* The complete output: what the same call stores in a destination larger
\* than any output, without the terminating byte.
RoomForAll == 64
complete(fmt, args) ==
    LET m == snprintf(RoomForAll, fmt, args).mem
    IN  [k \in 1 .. (Cardinality(DOMAIN m) - 1) |-> m[k - 1]]

\* C28: snprintf stores nothing when size is 0; otherwise it stores the
\* first min(length, size - 1) bytes of the complete output and a
\* terminating NUL, all inside str[0 .. size); for a format it supports it
\* returns the length of the complete output, so that the output is cut
\* short exactly when the value returned is at least size.
C28_SnprintfTruncates ==
    io.pc = "done"
        => LET full   == complete(io.fmt, io.args)
               stored == IF io.size = 0 THEN 0 ELSE min(Len(full), io.size - 1)
           IN  /\ io.size = 0 => io.mem = << >>
               /\ io.size > 0
                      => /\ DOMAIN io.mem = 0 .. stored
                         /\ \A a \in 0 .. (stored - 1) : io.mem[a] = full[a + 1]
                         /\ io.mem[stored] = "NUL"
               /\ \A a \in DOMAIN io.mem : a < io.size
               /\ io.ret # -1
                      => /\ io.ret = Len(full)
                         /\ (io.mem # snprintf(RoomForAll, io.fmt, io.args).mem)
                                <=> io.ret >= io.size

\* "[%s]" of a null pointer into eight bytes: eight characters, seven of
\* them stored, the string cut inside one write.
C28_Witness ==
    /\ io.pc = "done" /\ io.size = MaxSize
    /\ io.ret = 8
    /\ io.mem[0] = "[" /\ io.mem[6] = ")" /\ io.mem[7] = "NUL"


(***************************************************************************)
(* address_range and address_iterator: the range-for loop                  *)
(*     for (addr : address_range(first, last, step)) ...                   *)
(* one turn at a step.  Addresses are std::uintptr_t, here of AddrBits     *)
(* bits.                                                                   *)
(***************************************************************************)
MaxVisits == 6

\* An iterator that meets the end only where it hits it.
iterator_equal_exact(it, end) == it.cur = end.cur

\* operator==(it, end) of address_iterator.
iterator_equal(it, end) == it.cur >= end.cur

\* operator++ of address_iterator.
iterator_increment(it) == [it EXCEPT !.cur = Wrap(it.cur + it.step)]

\* address_range::begin() and end().
range_begin(r) == [cur |-> r.first, step |-> r.step]
range_end(r) == [cur |-> r.last, step |-> r.step]

\* One turn of the loop: the test it != end, the body, ++it.
RangeTurn ==
    /\ rng.pc = "loop"
    /\ rng' = IF iterator_equal(rng.it, range_end(rng.range)) THEN [rng EXCEPT !.pc = "done"]
              ELSE IF Len(rng.visited) = MaxVisits THEN [rng EXCEPT !.pc = "more"]
              ELSE [rng EXCEPT !.visited = Append(@, rng.it.cur),
                               !.it = iterator_increment(@)]
    /\ UNCHANGED <<rel, io, script, formatter, mm_vars, sync_vars, boot_vars, percpu_vars, gzip_vars, efi_vars>>

RangeEnds == {0, 4, 5, 16, AddrSpace - 16, AddrSpace - 8, AddrSpace - 5, AddrSpace - 1}
RangeSteps == {1, 3, 4, 8}

InitRange ==
    /\ InitMM({PtPool}, {"ST_1"}, {TRUE}) /\ IdleSync /\ IdleBoot /\ IdlePercpu
    /\ IdleGzip /\ IdleEfi /\ rel = NoReloc /\ io = NoPrint /\ script = NoScript /\ formatter = NoFormatter
    /\ \E lo \in RangeEnds, hi \in RangeEnds, step \in RangeSteps :
           /\ lo <= hi
           /\ rng = [pc |-> "loop",
                     range |-> [first |-> lo, last |-> hi, step |-> step],
                     it |-> range_begin([first |-> lo, last |-> hi, step |-> step]),
                     visited |-> << >>]

NextRange == RangeTurn

SpecRange == InitRange /\ [][NextRange]_vars

\* first, first + s, first + 2s, ... below last.
strided(lo, hi, s) ==
    [k \in 1 .. ((hi - lo + s - 1) \div s) |-> lo + (k - 1) * s]

\* C29: the loop visits first, first + s, first + 2s, ... as long as they
\* are below last, in that order, and then stops, for every first <= last.
C29_VisitsBelowLast ==
    LET all == strided(rng.range.first, rng.range.last, rng.range.step)
    IN  rng.pc # "off"
            => /\ Len(rng.visited) <= Len(all)
               /\ rng.visited = SubSeq(all, 1, Len(rng.visited))
               /\ rng.pc = "done" => rng.visited = all

\* The same for the ranges whose last address plus the stride is an address.
C29_VisitsBelowLastNoWrap ==
    rng.range.last + rng.range.step <= AddrSpace => C29_VisitsBelowLast

\* A range whose length is not a multiple of the stride was walked to its end.
C29_Witness ==
    /\ rng.pc = "done"
    /\ Len(rng.visited) = 3
    /\ (rng.range.last - rng.range.first) % rng.range.step # 0


(***************************************************************************)
(* The shape of the tables under the root.                                 *)
(***************************************************************************)
\* The page-table pages the page table holds: those its allocator handed
\* out to it and it has not freed.
owned == {x[1] : x \in outstanding}

\* The table at table_pa, of the given level, and every table under it:
\* a valid descriptor at a non-last level is a block or points to a table
\* the page table owns, a descriptor at the last level is FAULT or a page.
RECURSIVE table_well_formed(_, _)
table_well_formed(table_pa, level) ==
    /\ table_pa \in owned
    /\ table_pa \in DOMAIN mem
    /\ \A i \in 0 .. (entries_per_table - 1) :
           LET entry == mem[table_pa][i]
           IN  IF level + 1 < levels(stage)
               THEN entry_is_valid(entry)
                        => \/ entry_is_block(entry)
                           \/ /\ entry_is_table(stage, level, entry)
                              /\ table_well_formed(pte_to_phys(entry), level + 1)
               ELSE pte_is_fault(entry) \/ pte_is_table_or_page(entry)

\* The tables reachable from the table at table_pa, parents first.
RECURSIVE tables_under(_, _)
tables_under(table_pa, level) ==
    LET RECURSIVE below(_)
        below(i) ==
            IF i >= entries_per_table THEN << >>
            ELSE (IF /\ table_pa \in DOMAIN mem
                     /\ entry_is_table(stage, level, mem[table_pa][i])
                  THEN tables_under(pte_to_phys(mem[table_pa][i]), level + 1)
                  ELSE << >>) \o below(i + 1)
    IN  <<table_pa>> \o below(0)

\* C30: once init has set the root up, after every map_range, protect_range
\* and unmap_range call, whatever it returned, every table reachable from the
\* root is a page the page table owns, reached through one descriptor only;
\* each valid descriptor of it at a non-last level is a block or a pointer to
\* such a table, and each descriptor at the last level is FAULT or a page.
C30_TablesWellFormed ==
    pt.root_pa # 0
        => /\ table_well_formed(pt.root_pa, 0)
           /\ LET ts == tables_under(pt.root_pa, 0)
              IN  \A i, j \in DOMAIN ts : ts[i] = ts[j] => i = j

\* A protect_range call has failed for want of a page to split a block
\* with: the root, a table under it that holds a block and a pointer, and
\* a last-level table that holds a page.
C30_Witness ==
    /\ pt.root_pa # 0
    /\ last.op = "protect_range" /\ last.ret = "nomem"
    /\ Len(tables_under(pt.root_pa, 0)) = PtPoolPages
    /\ \E t \in owned : \E i, j \in 0 .. (entries_per_table - 1) :
           /\ entry_is_block(mem[t][i])
           /\ pte_is_table_or_page(mem[t][j])

\* An unmap_range call has split blocks down to the last level.
C30_WitnessSplit ==
    /\ pt.root_pa # 0
    /\ last.op = "unmap_range" /\ last.ret = "ok"
    /\ \E k \in DOMAIN last.ev : last.ev[k].site = "split_block"
    /\ Len(tables_under(pt.root_pa, 0)) = 3


(***************************************************************************)
(* map_range that fails part of the way.                                   *)
(***************************************************************************)
\* The pages of a call's range that the call has mapped: not translated
\* before it, translated after it.
mapped_by(call, mem0, root0, mem1, root1) ==
    {q \in call_pages(call) : /\ ~translate(mem0, stage, root0, q).valid
                              /\ translate(mem1, stage, root1, q).valid}

\* C31: when map_range returns an error, the pages it has mapped are the
\* first n pages of its range for some n, each translating to pa plus its
\* offset in the range with the attributes asked for, and every page of the
\* range after them translates as it did before the call.
C31_FailedMapLeavesPrefix ==
    [][(last'.op = "map_range" /\ last'.ret # "ok")
       => LET done == mapped_by(last', mem, pt.root_pa, mem', pt'.root_pa)
              n    == Cardinality(done)
          IN  /\ done = pages_of(last'.a.addr, n * granule_size)
              /\ \A q \in done :
                    LET now == translate(mem', stage, pt'.root_pa, q)
                    IN  /\ now.pa = last'.pa + (q - last'.a.addr)
                        /\ now.attr = encode_attrs(stage, last'.p, "DEVICE" \in last'.p)
              /\ \A q \in call_pages(last') \ done :
                    what(translate(mem', stage, pt'.root_pa, q))
                        = what(translate(mem, stage, pt.root_pa, q))]_vars

\* map_range has mapped the first page of its range and has then failed
\* for want of a table page, the rest of the range left unmapped.
C31_Witness ==
    /\ last.op = "map_range" /\ last.ret = "nomem"
    /\ translate(mem, stage, pt.root_pa, last.a.addr).valid
    /\ \E i \in DOMAIN last.ev :
          /\ last.ev[i].e = "store" /\ last.ev[i].site = "write_pte_and_sync"
          /\ last.ev[i].a = last.a /\ entry_is_valid(last.ev[i].new)
    /\ \E q \in call_pages(last) : ~translate(mem, stage, pt.root_pa, q).valid

\* The same where the failure is a page of the range that is mapped already.
C31_WitnessInvalid ==
    /\ last.op = "map_range" /\ last.ret = "invalid"
    /\ \E i \in DOMAIN last.ev :
          /\ last.ev[i].e = "store" /\ last.ev[i].site = "write_pte_and_sync"
          /\ last.ev[i].a = last.a /\ entry_is_valid(last.ev[i].new)


(***************************************************************************)
(* The level map_range maps each step at.  Output addresses here are also  *)
(* such that they are less aligned than the input address.                 *)
(***************************************************************************)
PaShifted(a) == {pa_base + a.addr, pa_base + a.addr + page_size}

NextPTLevels ==
    \/ PtInit
    \/ PtDeinit
    \/ \E r \in Ranges : \E pa \in PaShifted(r.a) : MapRange(r.a, pa, r.size, KERNEL_RW)
    \/ \E r \in Ranges : UnmapRange(r.a, r.size)

SpecPTLevels == InitPT({TRUE}) /\ [][NextPTLevels]_vars

\* The levels a leaf of size bytes at the most may be installed at for
\* addr and pa.
fitting(addr, pa, size) ==
    {l \in 0 .. (levels(stage) - 1) :
        /\ size >= level_size(stage, l)
        /\ addr % level_size(stage, l) = 0
        /\ pa % level_size(stage, l) = 0}

\* The one of them whose level_size is largest; the last level if none fits.
largest_fitting(addr, pa, size) ==
    IF fitting(addr, pa, size) = {} THEN levels(stage) - 1
    ELSE CHOOSE l \in fitting(addr, pa, size) :
             \A k \in fitting(addr, pa, size) : level_size(stage, l) >= level_size(stage, k)

\* The steps that map [addr, addr + size) to pa: <<[addr, pa, level]>>.
RECURSIVE steps_of(_, _, _)
steps_of(addr, pa, size) ==
    IF size <= 0 THEN << >>
    ELSE LET l == largest_fitting(addr, pa, size)
         IN  <<[addr |-> addr, pa |-> pa, level |-> l]>>
                 \o steps_of(addr + level_size(stage, l), pa + level_size(stage, l),
                             size - level_size(stage, l))

\* The leaves a call has installed, in their order.
installs_of(call) ==
    SelectSeq(call.ev, LAMBDA e : /\ e.e = "store" /\ e.site = "write_pte_and_sync"
                                  /\ entry_is_valid(e.new))

\* C32: the k-th leaf a map_range call installs is the k-th step of its
\* range: it is at the level of the largest level_size that the size left
\* reaches and that both the input and the output address of the step are
\* aligned to, the last level if there is none; a call that returns ok
\* installs every step.
C32_LargestFittingLevel ==
    last.op = "map_range" =>
        LET steps == steps_of(last.a.addr, last.pa, last.size)
            done  == installs_of(last)
        IN  /\ Len(done) <= Len(steps)
            /\ (last.ret = "ok" /\ last.size > 0) => Len(done) = Len(steps)
            /\ \A k \in DOMAIN done :
                  LET tr == translate(mem, stage, pt.root_pa, steps[k].addr)
                  IN  /\ done[k].a.addr = steps[k].addr
                      /\ done[k].size = level_size(stage, steps[k].level)
                      /\ pte_to_phys(done[k].new) = phys_to_pte(steps[k].pa)
                      /\ pte_is_block(done[k].new) <=> steps[k].level + 1 < levels(stage)
                      /\ tr.valid /\ tr.level = steps[k].level
                      /\ tr.pa = phys_to_pte(steps[k].pa)

\* A call has mapped a range as large as a block, aligned as one, by pages,
\* its output address being aligned to a page only.
C32_Witness ==
    /\ last.op = "map_range" /\ last.ret = "ok"
    /\ last.size = 2 * page_size
    /\ last.a.addr % (2 * page_size) = 0
    /\ last.pa % (2 * page_size) # 0
    /\ Len(installs_of(last)) = 2

\* A call has mapped a page and then a block.
C32_WitnessMixed ==
    /\ last.op = "map_range" /\ last.ret = "ok"
    /\ Len(installs_of(last)) = 2
    /\ pte_is_table_or_page(installs_of(last)[1].new)
    /\ pte_is_block(installs_of(last)[2].new)


(***************************************************************************)
(* How a page-table page comes into the tree.                              *)
(***************************************************************************)
\* Pages of the pool that are free in allocator b.
RECURSIVE free_page_count(_, _)
free_page_count(b, o) ==
    IF o > Order THEN 0
    ELSE Cardinality(free_nodes(b, o)) * Pow2(o) + free_page_count(b, o + 1)

\* A store of a table pointer into a slot under the root.
links_table(e) ==
    live_store(e) /\ pte_is_table_or_page(e.new) /\ e.new = make_table(pte_to_phys(e.new))

\* Before event j of ev, page c was taken from the allocator, then every
\* entry of it was stored, and after the last of these stores a store fence
\* was issued.  fresh: the entries are all FAULT; otherwise all valid leaves.
prepared(ev, j, c, fresh) ==
    \E i \in 1 .. (j - 1) :
        /\ ev[i].e = "alloc_pages" /\ ev[i].tbl = c
        /\ \A idx \in 0 .. (entries_per_table - 1) :
              LET ks == {k \in (i + 1) .. (j - 1) :
                            ev[k].e = "store" /\ ev[k].tbl = c /\ ev[k].idx = idx}
              IN  /\ ks # {}
                  /\ LET k == CHOOSE x \in ks : \A y \in ks : y <= x
                     IN  /\ IF fresh THEN pte_is_fault(ev[k].new)
                            ELSE entry_is_valid(ev[k].new) /\ ~links_table(ev[k])
                         /\ \E f \in (k + 1) .. (j - 1) : ev[f].e = "dmb_ishst"

\* C33: each table page in the tree is one page taken from the allocator;
\* when a call stores the descriptor that links a page under the root, or
\* init makes a page the root, the call has before that taken the page from
\* the allocator, stored every entry of it (FAULT in a fresh table, the
\* leaves of the block in the child of a split block) and then issued
\* dmb(ishst).
C33_TablePreparedBeforeLinked ==
    /\ is_ok(boot_allocator)
          => free_page_count(boot_allocator, 0) + Cardinality(outstanding)
                 = boot_allocator.pool_pages
    /\ \A x \in outstanding : x[2] = 0
    /\ \A j \in DOMAIN last.ev :
          links_table(last.ev[j])
              => prepared(last.ev, j, pte_to_phys(last.ev[j].new),
                          last.ev[j].site = "alloc_and_link_table")
    /\ (last.op = "init" /\ last.ret = "ok")
          => prepared(last.ev, Len(last.ev) + 1, pt.root_pa, TRUE)

\* A call has split a block and then a block of the child table: it has
\* linked two child tables, one under the other.
C33_Witness ==
    /\ last.op \in {"protect_range", "unmap_range"}
    /\ \E i, j \in DOMAIN last.ev :
          /\ links_table(last.ev[i]) /\ last.ev[i].site = "write_pte_and_sync"
          /\ links_table(last.ev[j]) /\ last.ev[j].site = "write_pte_and_sync"
          /\ i < j

\* map_range has linked a fresh table.
C33_WitnessFresh ==
    /\ last.op = "map_range"
    /\ \E j \in DOMAIN last.ev :
          links_table(last.ev[j]) /\ last.ev[j].site = "alloc_and_link_table"


(***************************************************************************)
(* The blocks a disciplined client holds.                                  *)
(***************************************************************************)
\* The bytes of block x = <<pa, order>>: [pa, pa + 2^order pages).
block_end(x) == x[1] + order_to_pages(x[2]) * page_size

\* C34: whatever alloc_pages calls were made, and free_pages calls of blocks
\* held with the order they were allocated at, the blocks held lie inside
\* [base_pa, end_pa) and no two of them share a byte.
C34_BlocksDisjointInPool ==
    /\ \A x \in outstanding :
          boot_allocator.base_pa <= x[1] /\ block_end(x) <= boot_allocator.end_pa
    /\ \A x, y \in outstanding :
          x # y => (block_end(x) <= y[1] \/ block_end(y) <= x[1])

\* A pool one page short of 2^Order pages is used up: a block of order 1
\* and a page are held, the page allocated last.
C34_Witness ==
    /\ boot_allocator.pool_pages = Pow2(Order) - 1
    /\ last.op = "alloc_pages" /\ last.pa # 0 /\ last.order = 0
    /\ \E x, y \in outstanding : x[2] = 0 /\ y[2] = 1


(***************************************************************************)
(* A client that maps a range, unmaps it and maps it again with the same   *)
(* arguments, on a page table that other calls have used before.           *)
(***************************************************************************)
other_vars ==
    <<rel, io, rng, formatter, sync_vars, boot_vars, percpu_vars, gzip_vars, efi_vars>>

\* The first map_range(a, pa, size, p).
RemapFirst(a, pa, size, p) ==
    /\ script.pc = "off"
    /\ MapRangeCall(a, pa, size, p)
    /\ script' = [pc |-> "mapped", a |-> a, pa |-> pa, size |-> size, p |-> p,
                  leaves |-> installs_of(last'), rets |-> <<last'.ret>>]
    /\ UNCHANGED other_vars

\* unmap_range(a, size), made when map_range returned ok.
RemapUnmap ==
    /\ script.pc = "mapped" /\ script.rets[1] = "ok"
    /\ UnmapRangeCall(script.a, script.size)
    /\ script' = [script EXCEPT !.pc = "unmapped", !.rets = Append(@, last'.ret)]
    /\ UNCHANGED other_vars

\* The same map_range again, made when unmap_range returned ok.
RemapAgain ==
    /\ script.pc = "unmapped" /\ script.rets[2] = "ok"
    /\ MapRangeCall(script.a, script.pa, script.size, script.p)
    /\ script' = [script EXCEPT !.pc = "again", !.rets = Append(@, last'.ret)]
    /\ UNCHANGED other_vars

NextPTRemap ==
    \/ script.pc = "off" /\ PtInit
    \/ script.pc = "off" /\ \E r \in Ranges : \E pa \in PaFor(r.a) :
                                MapRange(r.a, pa, r.size, KERNEL_RW)
    \/ script.pc = "off" /\ \E r \in Ranges : UnmapRange(r.a, r.size)
    \/ \E r \in Ranges, p \in Prots : \E pa \in PaFor(r.a) : RemapFirst(r.a, pa, r.size, p)
    \/ RemapUnmap
    \/ RemapAgain

SpecPTRemap == InitPT({TRUE}) /\ [][NextPTRemap]_vars

\* Every page of the client's range translates to pa plus its offset.
remapped ==
    \A q \in pages_of(script.a.addr, script.size) :
        LET tr == translate(mem, stage, pt.root_pa, q)
        IN  /\ tr.valid
            /\ tr.pa = script.pa + (q - script.a.addr)
            /\ tr.attr = encode_attrs(stage, script.p, "DEVICE" \in script.p)

\* C35: the second map_range of the client returns ok and maps every page
\* of the range, unless there is no page left for a table it needs (nomem).
C35_RemapSucceeds ==
    script.pc = "again" => /\ script.rets[3] \in {"ok", "nomem"}
                           /\ script.rets[3] = "ok" => remapped

\* The same for a range that the first map_range mapped by last-level pages
\* only.
C35_RemapOfPagesSucceeds ==
    (/\ script.pc = "again"
     /\ \A k \in DOMAIN script.leaves : ~pte_is_block(script.leaves[k].new))
        => /\ script.rets[3] \in {"ok", "nomem"}
           /\ script.rets[3] = "ok" => remapped

\* A page mapped among other mappings has been mapped again.
C35_Witness ==
    /\ script.pc = "again" /\ script.rets[3] = "ok"
    /\ Len(script.leaves) = 1
    /\ \E q \in all_pages \ pages_of(script.a.addr, script.size) :
          translate(mem, stage, pt.root_pa, q).valid
    /\ \A k \in DOMAIN script.leaves : ~pte_is_block(script.leaves[k].new)


(***************************************************************************)
(* init and deinit of a page table whose allocator other clients use too:  *)
(* while the page table has no root they take and return blocks.           *)
(***************************************************************************)
NextPTInit ==
    \/ PtInit
    \/ PtDeinit
    \/ pt.root_pa = 0 /\ \E order \in Orders : AllocPages(order)
    \/ pt.root_pa = 0 /\ \E x \in outstanding : FreePages(x)
    \/ \E r \in Ranges : \E pa \in PaFor(r.a) : MapRange(r.a, pa, r.size, KERNEL_RW)

SpecPTInit == InitPT({TRUE}) /\ [][NextPTInit]_vars

can_supply_page(b) == buddy_alloc_pages(b, 0).pa # 0

\* C36: root() is 0 until an init succeeds and from deinit on, and not 0 in
\* between; an init called while root() is 0 returns ok whenever the
\* allocator has a page to give.
C36_InitWhenUninitialised ==
    [][/\ (last'.op = "init" /\ last'.ret = "ok") => pt'.root_pa # 0
       /\ (last'.op = "init" /\ last'.ret # "ok") => pt'.root_pa = pt.root_pa
       /\ last'.op = "deinit" => pt'.root_pa = 0
       /\ last'.op \in MapOps => pt'.root_pa = pt.root_pa
       /\ (last'.op = "init" /\ pt.root_pa = 0 /\ can_supply_page(boot_allocator))
             => last'.ret = "ok"]_vars

\* The same, the last conjunct for a page table that init was never called
\* on.
C36_FirstInit ==
    [][/\ (last'.op = "init" /\ last'.ret = "ok") => pt'.root_pa # 0
       /\ (last'.op = "init" /\ last'.ret # "ok") => pt'.root_pa = pt.root_pa
       /\ last'.op = "deinit" => pt'.root_pa = 0
       /\ last'.op \in MapOps => pt'.root_pa = pt.root_pa
       /\ (last'.op = "init" /\ ~pt.allocator /\ can_supply_page(boot_allocator))
             => last'.ret = "ok"]_vars

\* init has returned nomem.
C36_Witness ==
    /\ last.op = "init" /\ last.ret = "nomem" /\ pt.root_pa = 0


(***************************************************************************)
(* The memory the decoder touches.  The caller gives decompress_gzip an    *)
(* output buffer of ISIZE bytes, the last four bytes of the member.        *)
(***************************************************************************)
\* n bytes fit in a buffer of ISIZE bytes.
within_capacity(src, n) ==
    LET isize == get_unaligned_u32(src, Len(src) - 4)
    IN  isize[1] > 0 \/ n <= isize[2]

\* The length/distance pair the next symbol of a compressed block stands
\* for, if it is one: [copy, len, dist_sym, offset] (offset for a distance
\* symbol that dist_bits[] and dist_base[] have an entry for).
back_reference(src, d) ==
    LET none == [copy |-> FALSE, len |-> 0, dist_sym |-> 0, offset |-> 0]
        s    == decode_symbol(src, d, d.ll)
        l    == get_extra_bits(src, s.d, length_bits[s.v - 257 + 1],
                               length_base[s.v - 257 + 1])
        ds   == decode_symbol(src, l.d, d.distance)
        f    == get_extra_bits(src, ds.d, dist_bits[ds.v + 1], dist_base[ds.v + 1])
    IN  IF s.d.error # ERR_NONE \/ s.v <= 256 \/ s.v > 285 THEN none
        ELSE IF l.d.error # ERR_NONE THEN none
        ELSE IF ds.d.error # ERR_NONE \/ ds.v >= MAX_DISTANCE THEN none
        ELSE IF ds.v >= Len(dist_base)
             THEN [copy |-> TRUE, len |-> l.v, dist_sym |-> ds.v, offset |-> 0]
        ELSE IF f.d.error # ERR_NONE THEN none
        ELSE [copy |-> TRUE, len |-> l.v, dist_sym |-> ds.v, offset |-> f.v]

\* C37: whatever the input, no step of the decoder brings the output to
\* more bytes than ISIZE, runs a code-length run past the end of lengths[]
\* (and so past the HLIT + HDIST entries), indexes dist_bits[] or
\* dist_base[] past their end, or copies from before the start of the output.
C37_DecoderStaysInBounds ==
    [][/\ Len(gz'.out) > 0 => within_capacity(gz'.src, Len(gz'.out))
       /\ gz'.pc # "undefined"
       /\ gz.pc = "symbol"
             => LET b == back_reference(gz.src, gz.d)
                IN  b.copy => /\ b.dist_sym < Len(dist_base)
                              /\ b.offset <= Len(gz.out)]_vars

\* The parts of it, each on its own.
C37_OutputWithinCapacity ==
    Len(gz.out) > 0 => within_capacity(gz.src, Len(gz.out))

C37_RunWithinLengths == gz.pc # "undefined"

C37_CopyFromOutput ==
    [][gz.pc = "symbol"
          => LET b == back_reference(gz.src, gz.d)
             IN  (b.copy /\ b.dist_sym < Len(dist_base)) => b.offset <= Len(gz.out)]_vars

C37_DistanceInTables ==
    [][gz.pc = "symbol"
          => LET b == back_reference(gz.src, gz.d)
             IN  b.copy => b.dist_sym < Len(dist_base)]_vars


(***************************************************************************)
(* The page-allocator hook of the malloc shim (runtime.cpp): alloc_page    *)
(* and free_page on xino::runtime::boot_allocator.  The client keeps the   *)
(* pointers alloc_page gave it and frees each once, with the order it      *)
(* asked for; page tables take and return pages of the same allocator      *)
(* through alloc_pages and free_pages.  script.held holds, for every       *)
(* pointer the client has, the block alloc_pages returned for it;          *)
(* script.before is the allocator as it was before the last alloc_page.    *)
(***************************************************************************)
\* An alloc_page that hands out the physical address whatever the mapping.
alloc_page_physical(b, order, mapping) ==
    LET r == buddy_alloc_pages(b, order)
    IN  [b |-> r.b, pa |-> r.pa, va |-> r.pa]

\* alloc_page(order): [b, pa (the block taken), va (the pointer returned)]
alloc_page(b, order, mapping) ==
    LET r == buddy_alloc_pages(b, order)
    IN  [b |-> r.b, pa |-> r.pa,
         va |-> IF r.pa = 0 THEN 0 ELSE phys_to_virt(r.pa, mapping)]

\* free_page(va, order): the allocator after it.
free_page(b, va, order, mapping) ==
    LET pa == virt_to_phys(va, mapping)
    IN  IF pa.has_value THEN buddy_free_pages(b, pa.pa, order) ELSE b

AllocPage(order) ==
    /\ script.pc = "hook"
    /\ \E r \in {alloc_page(boot_allocator, order, use_mapping)} :
           /\ boot_allocator' = r.b
           /\ outstanding' = IF r.pa # 0 THEN outstanding \cup {<<r.pa, order>>}
                                         ELSE outstanding
           /\ last' = [mk_last("alloc_page") EXCEPT !.order = order, !.pa = r.pa,
                                                    !.a = [addr |-> r.va, asid |-> 0]]
           /\ script' = [script EXCEPT
                            !.held = IF r.va # 0
                                     THEN @ \cup {[va |-> r.va, pa |-> r.pa, order |-> order]}
                                     ELSE @,
                            !.before = boot_allocator,
                            !.pair = FALSE]
    /\ UNCHANGED <<mem, pt, stage, va_layout_enabled, pool>>
    /\ UNCHANGED other_vars

\* free_page(h.va, h.order) on a pointer the client holds.
FreePage(h) ==
    /\ script.pc = "hook"
    /\ h \in script.held
    /\ boot_allocator' = free_page(boot_allocator, h.va, h.order, use_mapping)
    /\ outstanding' = outstanding \ {<<h.pa, h.order>>}
    /\ last' = [mk_last("free_page") EXCEPT !.order = h.order, !.pa = h.pa,
                                            !.a = [addr |-> h.va, asid |-> 0]]
    /\ script' = [script EXCEPT
                     !.held = @ \ {h},
                     !.pair = (/\ last.op = "alloc_page"
                               /\ last.a.addr = h.va
                               /\ last.order = h.order)]
    /\ UNCHANGED <<mem, pt, stage, va_layout_enabled, pool>>
    /\ UNCHANGED other_vars

\* The blocks the client of the hook holds.
hook_blocks == {<<h.pa, h.order>> : h \in script.held}

\* Boot heaps at a page boundary and off one, of one page to as many as
\* buddy<Order> represents, that lie where the direct map reaches them.
HookPools ==
    {x \in [pa : {page_size, page_size + 1},
            size : {n * page_size : n \in 1 .. Pow2(Order)}] :
        x.pa + x.size - 1 <= page_end - page_offset}

\* The kernel before (use_mapping false) and after (true) it moved to the
\* direct map.
InitPageHook ==
    /\ InitMM(HookPools, {"ST_1"}, {FALSE})
    /\ IdleSync
    /\ cpu_state = ZeroCpuState
    /\ config = [page_shift |-> 12, va_bits |-> 39]
    /\ booted = <<>>
    /\ use_mapping \in BOOLEAN
    /\ IdlePercpu /\ IdleGzip /\ IdleEfi
    /\ rel = NoReloc /\ io = NoPrint /\ rng = NoRange /\ formatter = NoFormatter
    /\ script = [pc |-> "hook", held |-> {}, before |-> boot_allocator, pair |-> FALSE]

NextPageHook ==
    \/ \E order \in Orders : AllocPage(order)
    \/ \E h \in script.held : FreePage(h)
    \/ \E order \in Orders : AllocPages(order)
    \/ \E x \in outstanding \ hook_blocks : FreePages(x)

SpecPageHook == InitPageHook /\ [][NextPageHook]_vars

\* C38: free_page(va, order) on a pointer alloc_page(order) returned leaves
\* the allocator as free_pages(pa, order) on the block alloc_page took for
\* it would, and when it follows that alloc_page at once the allocator is
\* again as it was before the two calls; with use_mapping false and true.
C38_FreePageGivesBack ==
    [][last'.op = "free_page"
          => /\ boot_allocator' = buddy_free_pages(boot_allocator, last'.pa, last'.order)
             /\ script'.pair => boot_allocator' = script.before]_vars

\* free_page of a block of two pages right after its alloc_page, through
\* the direct map, while the client holds another pointer.
C38_Witness ==
    /\ last.op = "free_page" /\ script.pair
    /\ use_mapping
    /\ last.order = 1
    /\ last.a.addr = Wrap(page_offset + last.pa)
    /\ script.held # {}
    /\ boot_allocator = script.before

\* The same with the MMU off, where the pointer is the physical address.
C38_WitnessIdentity ==
    /\ last.op = "free_page" /\ script.pair
    /\ ~use_mapping
    /\ last.order = 1
    /\ last.a.addr = last.pa
    /\ boot_allocator = script.before


(***************************************************************************)
(* iob_vsnprintf called on several CPUs (vsnprintf.c).  iob_count is one   *)
(* static int for all of them.  Each call writes to its own _IO_BUFFER, so *)
(* of a call only the writes it has still to make and what it does to      *)
(* iob_count are kept: formatter.call[c] is                                *)
(*   [pc, chunks, reg, own, ret, alone]                                    *)
(* chunks: the __iob_write calls still to make; reg: the value of          *)
(* iob_count it has loaded for the addition it is in; own: the bytes it    *)
(* has written so far; alone: no other call has run since it was entered.  *)
(* The additions to iob_count are plain loads and stores of a shared int.  *)
(***************************************************************************)
\* An addition that takes the value loaded at the entry of the call.
count_add_from_zero(count, reg, n) == n

\* iob_count++, iob_count += len: the store of the sum.
count_add(count, reg, n) == reg + n

running(c) == formatter.call[c].pc \in {"run", "add"}

others_not_alone(c) ==
    [x \in CpuIdx |-> IF x # c /\ running(x)
                      THEN [formatter.call[x] EXCEPT !.alone = FALSE]
                      ELSE formatter.call[x]]

\* The formats the CPUs print.
VsnInputs ==
    {[fmt |-> <<"a", "b">>, args |-> <<>>],
     [fmt |-> <<"%", "s">>, args |-> <<[str |-> <<"h", "e", "y">>]>>],
     [fmt |-> <<"%", "d">>, args |-> <<[int |-> -42]>>]}

\* iob_vsnprintf(io, fmt, ap) entered on CPU c: iob_count = 0.
VsnEnter(c, in) ==
    /\ formatter.call[c].pc = "off"
    /\ \E v \in {iob_vsnprintf(in.fmt, in.args, 1, 1, << >>)} :
           formatter' =
               [iob_count |-> 0,
                call |-> [others_not_alone(c) EXCEPT
                             ![c] = [pc |-> "run", chunks |-> v.chunks, reg |-> 0,
                                     own |-> 0, ret |-> 0,
                                     alone |-> \A x \in CpuIdx \ {c} : ~running(x)]]]
    /\ UNCHANGED <<rel, io, rng, script, mm_vars, sync_vars, boot_vars, percpu_vars, gzip_vars, efi_vars>>

\* The next __iob_write of the call on CPU c, and the load of iob_count.
VsnWrite(c) ==
    /\ formatter.call[c].pc = "run"
    /\ formatter.call[c].chunks # << >>
    /\ formatter' =
           [formatter EXCEPT
               !.call = [others_not_alone(c) EXCEPT
                            ![c].pc = "add",
                            ![c].reg = formatter.iob_count,
                            ![c].own = @ + Len(Head(formatter.call[c].chunks))]]
    /\ UNCHANGED <<rel, io, rng, script, mm_vars, sync_vars, boot_vars, percpu_vars, gzip_vars, efi_vars>>

\* The store that ends the addition.
VsnAdd(c) ==
    /\ formatter.call[c].pc = "add"
    /\ formatter' =
           [iob_count |-> count_add(formatter.iob_count, formatter.call[c].reg,
                                    Len(Head(formatter.call[c].chunks))),
            call |-> [others_not_alone(c) EXCEPT
                         ![c].pc = "run",
                         ![c].chunks = Tail(@)]]
    /\ UNCHANGED <<rel, io, rng, script, mm_vars, sync_vars, boot_vars, percpu_vars, gzip_vars, efi_vars>>

\* return iob_count;
VsnReturn(c) ==
    /\ formatter.call[c].pc = "run"
    /\ formatter.call[c].chunks = << >>
    /\ formatter' =
           [formatter EXCEPT
               !.call = [others_not_alone(c) EXCEPT
                            ![c].pc = "done",
                            ![c].ret = formatter.iob_count]]
    /\ UNCHANGED <<rel, io, rng, script, mm_vars, sync_vars, boot_vars, percpu_vars, gzip_vars, efi_vars>>

InitVsn ==
    /\ InitMM({PtPool}, {"ST_1"}, {TRUE}) /\ IdleSync /\ IdleBoot /\ IdleRest

NextVsn ==
    \/ \E c \in CpuIdx, in \in VsnInputs : VsnEnter(c, in)
    \/ \E c \in CpuIdx : VsnWrite(c)
    \/ \E c \in CpuIdx : VsnAdd(c)
    \/ \E c \in CpuIdx : VsnReturn(c)

SpecVsn == InitVsn /\ [][NextVsn]_vars

\* C39: a call of iob_vsnprintf returns the number of bytes it has written
\* itself, whatever calls run on other CPUs between its entry and its
\* return.
C39_ReturnsOwnLength ==
    \A c \in CpuIdx :
        formatter.call[c].pc = "done" => formatter.call[c].ret = formatter.call[c].own

\* The same of the calls during which no other call ran.
C39_AloneReturnsOwnLength ==
    \A c \in CpuIdx :
        (formatter.call[c].pc = "done" /\ formatter.call[c].alone)
            => formatter.call[c].ret = formatter.call[c].own

\* Two calls have returned, the second entered after the first returned.
C39_WitnessAlone ==
    \A c \in CpuIdx :
        /\ formatter.call[c].pc = "done" /\ formatter.call[c].alone
        /\ formatter.call[c].own > 1


(***************************************************************************)
(* Byte arithmetic of the two tagged address types: xino::address<Tag>     *)
(* (addr_types.hpp) and xino::mm::address_base<Derived, Tag> (mm.hpp).     *)
(* Both hold a std::uintptr_t, a word of AddrBits bits here, and take a    *)
(* std::uintptr_t offset.  A client computes a - off and (a + off) - off.  *)
(***************************************************************************)
\* addr += off;
plus_assign(addr, off) == Wrap(addr + off)

\* addr -= off;
minus_assign(addr, off) == Wrap(addr + AddrSpace - off)

\* address<Tag>: operator+(address, uintptr_t), operator-(address, uintptr_t)
address_plus(a, off) == plus_assign(a, off)
address_minus(a, off) == plus_assign(a, off)

\* An operator- of address_base that leaves the address as it is.
address_base_minus_nothing(a, off) == a

\* address_base: operator+(Derived, uintptr_t), operator-(Derived, uintptr_t)
address_base_plus(a, off) == plus_assign(a, off)
address_base_minus(a, off) == minus_assign(a, off)

\* Addresses and offsets: the ends and the middle of the word, a page and
\* the bytes next to them.
Words ==
    {0, 1, page_size, page_size + 1, AddrSpace \div 2 - 1, AddrSpace \div 2,
     AddrSpace - page_size, AddrSpace - 1}

\* a - off and (a + off) - off on an address<Tag>.
AddressMinus ==
    /\ script.pc = "call" /\ script.type = "address"
    /\ script' = [script EXCEPT
                     !.pc = "done",
                     !.diff = address_minus(script.a, script.off),
                     !.back = address_minus(address_plus(script.a, script.off), script.off)]
    /\ UNCHANGED <<mm_vars, other_vars>>

\* The same on a phys_addr, virt_addr, bus_addr or ipa_addr.
AddressBaseMinus ==
    /\ script.pc = "call" /\ script.type = "address_base"
    /\ script' = [script EXCEPT
                     !.pc = "done",
                     !.diff = address_base_minus(script.a, script.off),
                     !.back = address_base_minus(address_base_plus(script.a, script.off),
                                                 script.off)]
    /\ UNCHANGED <<mm_vars, other_vars>>

InitAddress ==
    /\ InitMM({PtPool}, {"ST_1"}, {TRUE}) /\ IdleSync /\ IdleBoot /\ IdlePercpu
    /\ IdleGzip /\ IdleEfi
    /\ rel = NoReloc /\ io = NoPrint /\ rng = NoRange /\ formatter = NoFormatter
    /\ \E type \in {"address", "address_base"}, a \in Words, off \in Words :
           script = [pc |-> "call", type |-> type, a |-> a, off |-> off,
                     diff |-> 0, back |-> 0]

NextAddress == AddressMinus \/ AddressBaseMinus

SpecAddress == InitAddress /\ [][NextAddress]_vars

\* The value of a minus off modulo the size of the word.
minus_mod(a, off) == (a - off + AddrSpace) % AddrSpace

\* C40: for both address types a - off is the address whose value is the
\* value of a minus off modulo the size of the word, and (a + off) - off
\* is a, for every address a and every offset off.
C40_MinusUndoesPlus ==
    script.pc = "done"
        => /\ script.diff = minus_mod(script.a, script.off)
           /\ script.back = script.a

\* The same of address_base alone.
C40_AddressBaseMinusUndoesPlus ==
    (script.pc = "done" /\ script.type = "address_base")
        => /\ script.diff = minus_mod(script.a, script.off)
           /\ script.back = script.a

\* On an address_base, an offset larger than the address: the difference
\* wraps, and adding first wraps the other way.
C40_WitnessAddressBase ==
    /\ script.pc = "done" /\ script.type = "address_base"
    /\ script.a = page_size /\ script.off = AddrSpace - 1
    /\ script.diff = page_size + 1
    /\ script.back = page_size

=============================================================================
